---- MODULE Spec2Model ----
(***************************************************************************)
(* Model of the lite-shooter load generator: the job runner (runJobs and   *)
(* runTimedJobs), the block scenario's work function (runBlockTest), the   *)
(* block picker (blockPicker.pick), the request logger (newReqLogger,      *)
(* logRequest, reqLogger.Close) and the part of main that drives them.     *)
(*                                                                         *)
(* Time is counted in ticks; TicksPerSec ticks make one second.  Worker    *)
(* goroutines are the elements of Workers; a worker's position in the code *)
(* is pc[w].  The external calls (GetMasterchainInfo, WaitMasterchainBlock,*)
(* GetBlockRaw) return success or failure nondeterministically, and take   *)
(* any amount of time (the clock may tick while a worker is inside one).   *)
(***************************************************************************)
EXTENDS Integers, Sequences, FiniteSets, TLC

\* ---------------------------------------------------------------- bounds
MaxItems == 2
MaxConc == 2
MaxDur == 3
TicksPerSec == 2
MaxClaims == 3
MaxBound == 2
MaxWindow == 2
MaxRefresh == 2
LogCap == 1
WBufCap == 2
FixedTicks == 2

Workers == 1..MaxConc
NoWorker == 0
ZeroTime == 0 - (MaxDur + MaxRefresh + 2)

VARIABLES
    \* configuration of one scenario (arguments of runBlockTest)
    total,        \* len(seqs): number of work items
    reqConc,      \* conc as requested
    duration,     \* duration in ticks; 0 = fixed dataset run
    logOn,        \* logger != nil
    scenario,     \* "blocks" (runBlockTest) or "accounts" (runAccountTest)
    masterErr,    \* runAccountTest: masterErr != nil
    \* blockPicker
    picker,       \* the blockPicker struct (on = FALSE: picker == nil)
    pickNow,      \* local `now` of the goroutine that fetches the bound inside pick
    fetchCount,   \* history: number of GetMasterchainInfo calls made by pick
    lastFetch,    \* history: time of the latest GetMasterchainInfo call of pick
    lastOkFetch,  \* history: time of the latest call that returned a bound
    \* runJobs / runTimedJobs
    conc,         \* effective worker count
    jobs,         \* buffered channel of indices (runJobs)
    jobsClosed,
    di,           \* dispatcher loop variable i (runJobs)
    durations,
    successes,
    errors,
    idx,          \* shared claim counter (runTimedJobs)
    start,
    okCounts,
    errCounts,
    perSec,
    mu,           \* runTimedJobs: holder of the mutex mu (NoWorker: unlocked)
    wd,           \* runTimedJobs: the worker's local d (latency of the last call)
    \* worker goroutines
    pc,
    widx,         \* index the worker is executing
    t0,
    werr,         \* err of the last call inside fn (TRUE = non-nil)
    wseq,         \* seq used by the work function
    \* reqLogger
    ch,           \* buffered channel of log entries
    chClosed,
    wbuf,         \* bufio.Writer contents not yet written to the file
    file,         \* lines in the file
    fileClosed,
    lpc,          \* position of the consumer goroutine
    nlog,         \* history: number of logRequest calls made by each worker
    \* history of the run
    calls,        \* number of fn(i) invocations per index
    opCalls,      \* number of WaitMasterchainBlock invocations
    claimed,      \* sequence of indices claimed (runTimedJobs)
    \* main and the wall clock
    mpc,
    round,        \* number of scenarios main has started
    now,
    \* the functions that work on the outcome of a run (metrics, report)
    input,        \* the arguments of the function under study
    output,       \* what it returned
    fpc           \* "none": no function under study; "start": not yet applied

cfgVars == <<total, reqConc, duration, logOn, scenario>>
acctVars == <<masterErr>>
recVars == <<mu, wd>>
mainVars == <<round>>
fnVars == <<input, output, fpc>>
pickVars == <<picker, pickNow, fetchCount, lastFetch, lastOkFetch>>
runVars == <<conc, jobs, jobsClosed, di, durations, successes, errors, idx,
             start, okCounts, errCounts, perSec>>
workerVars == <<pc, widx, t0, werr, wseq>>
logVars == <<ch, chClosed, wbuf, file, fileClosed, lpc, nlog>>
histVars == <<calls, opCalls, claimed>>
vars == <<cfgVars, fnVars, acctVars, recVars, mainVars, pickVars, runVars, workerVars, logVars, histVars, mpc, now>>

\* ---------------------------------------------------------------- helpers
Max(a, b) == IF a > b THEN a ELSE b
CeilDiv(a, b) == (a + b - 1) \div b

RECURSIVE SumSeq(_)
SumSeq(s) == IF s = <<>> THEN 0 ELSE Head(s) + SumSeq(Tail(s))

\* a clamp that forgets the floor of one worker
ClampConc_NoFloor(n, c) == IF c > n THEN n ELSE c

\* runJobs: conc clamped to total, at least 1
ClampConc(n, c) ==
    LET c1 == IF c > n THEN n ELSE c
    IN  IF c1 <= 0 THEN 1 ELSE c1

\* a worker count taken as requested
TimedConc_NoFloor(c) == c

\* runTimedJobs: conc at least 1
TimedConc(c) == IF c <= 0 THEN 1 ELSE c

\* runTimedJobs: buckets = ceil(duration.Seconds()), at least 1
Buckets(d) ==
    LET b == CeilDiv(d, TicksPerSec)
    IN  IF b < 1 THEN 1 ELSE b

\* runTimedJobs: deadline = start.Add(duration)
Deadline == start + duration

\* a deadline check that never fires
AfterDeadline_Never(t) == FALSE

\* time.Now().After(deadline)
AfterDeadline(t) == t > Deadline

\* int(time.Since(start).Seconds())
SecOf(t) == (t - start) \div TicksPerSec

\* the guard of the per-second recording: sec >= 0 && sec < buckets
InSeries(sec, buckets) == sec >= 0 /\ sec < buckets

\* seqs[i] of the block scenario (the dataset starts at block 1)
SeqAt(i) == i + 1

\* the clock is followed until one tick after the deadline of a timed run, and
\* for FixedTicks ticks in a fixed dataset run
MaxNow == IF duration > 0 THEN duration + 1 ELSE FixedTicks

\* position of a worker after fn returns
AfterFn == "record"

\* position of a worker at the top of its loop
LoopTop == IF duration > 0 THEN "check" ELSE "recv"

Active == 1..conc

\* ---------------------------------------------------------------- Init
NoPicker == [on |-> FALSE, mode |-> "none", from |-> 0, to |-> 0, window |-> 0,
             refresh |-> 0, lastRefresh |-> ZeroTime, latest |-> 0, mu |-> NoWorker]

RangePickers ==
    { [on |-> TRUE, mode |-> "range", from |-> ft[1], to |-> ft[2], window |-> 0,
       refresh |-> MaxRefresh, lastRefresh |-> ZeroTime, latest |-> 0,
       mu |-> NoWorker] :
      ft \in { x \in (1..MaxBound) \X (1..MaxBound) : x[1] <= x[2] } }

LastPickers ==
    { [on |-> TRUE, mode |-> "last", from |-> 0, to |-> 0, window |-> w,
       refresh |-> r, lastRefresh |-> ZeroTime, latest |-> 0, mu |-> NoWorker] :
      w \in 1..MaxWindow, r \in {0 - 1} \cup (1..MaxRefresh) }

\* nothing runs yet: the logger is created, no scenario has started
InitIdle ==
    /\ masterErr = FALSE
    /\ mu = NoWorker
    /\ wd = [w \in Workers |-> 0]
    /\ pickNow = 0
    /\ fetchCount = 0
    /\ lastFetch = ZeroTime
    /\ lastOkFetch = ZeroTime
    /\ conc = 0
    /\ jobs = <<>>
    /\ jobsClosed = FALSE
    /\ di = 0
    /\ durations = <<>>
    /\ successes = 0
    /\ errors = 0
    /\ idx = 0
    /\ start = 0
    /\ okCounts = <<>>
    /\ errCounts = <<>>
    /\ perSec = <<>>
    /\ pc = [w \in Workers |-> "idle"]
    /\ widx = [w \in Workers |-> 0]
    /\ t0 = [w \in Workers |-> 0]
    /\ werr = [w \in Workers |-> FALSE]
    /\ wseq = [w \in Workers |-> 0]
    /\ ch = <<>>
    /\ chClosed = FALSE
    /\ wbuf = <<>>
    /\ file = <<>>
    /\ fileClosed = FALSE
    /\ lpc = IF logOn THEN "range" ELSE "none"
    /\ nlog = [w \in Workers |-> 0]
    /\ calls = [i \in 0..(MaxItems - 1) |-> 0]
    /\ opCalls = 0
    /\ claimed = <<>>
    /\ now = 0

\* where main stands when it calls runAccountTest or runBlockTest
ScenarioEntry(sc) == IF sc = "accounts" THEN "master" ELSE "start"

\* main is about to run its first scenario
InitRun ==
    /\ InitIdle
    /\ round = 1
    /\ mpc = ScenarioEntry(scenario)

\* a scenario run: no function of the report is under study
InitCommon ==
    /\ InitRun
    /\ input = <<>>
    /\ output = <<>>
    /\ fpc = "none"

\* a function of the report under study: no scenario is run
InitFn ==
    /\ scenario = "blocks"
    /\ total = 0
    /\ reqConc = 0
    /\ duration = 0
    /\ logOn = FALSE
    /\ picker = NoPicker
    /\ InitRun
    /\ output = <<>>
    /\ fpc = "start"

\* the step that applies a function to the input
Apply(name, result) ==
    /\ fpc = "start"
    /\ output' = result
    /\ fpc' = name
    /\ UNCHANGED <<cfgVars, input, acctVars, recVars, mainVars, pickVars, runVars, workerVars, logVars,
                   histVars, mpc, now>>

\* ---------------------------------------------------------------- main: start of a run
\* runJobs, up to and including the start of the worker goroutines
StartFixed ==
    /\ mpc = "start"
    /\ ~(duration > 0)
    /\ conc' = ClampConc(total, reqConc)
    /\ durations' = [i \in 1..total |-> 0]
    /\ pc' = [w \in Workers |-> IF w <= conc' THEN "recv" ELSE "idle"]
    /\ mpc' = "dispatch"
    /\ UNCHANGED <<cfgVars, fnVars, acctVars, recVars, mainVars, pickVars, jobs, jobsClosed, di, successes, errors, idx,
                   start, okCounts, errCounts, perSec, widx, t0, werr, wseq,
                   logVars, histVars, now>>

\* runTimedJobs, up to and including the start of the worker goroutines
StartTimed ==
    /\ mpc = "start"
    /\ duration > 0
    /\ IF total <= 0
       THEN /\ errors' = 1
            /\ mpc' = "returned"
            /\ UNCHANGED <<conc, start, okCounts, errCounts, perSec, pc>>
       ELSE /\ conc' = TimedConc(reqConc)
            /\ start' = now
            /\ okCounts' = [b \in 1..Buckets(duration) |-> 0]
            /\ errCounts' = [b \in 1..Buckets(duration) |-> 0]
            /\ perSec' = [b \in 1..Buckets(duration) |-> <<>>]
            /\ pc' = [w \in Workers |-> IF w <= conc' THEN "check" ELSE "idle"]
            /\ mpc' = "wait"
            /\ UNCHANGED errors
    /\ UNCHANGED <<cfgVars, fnVars, acctVars, recVars, mainVars, pickVars, jobs, jobsClosed, di, durations, successes, idx,
                   widx, t0, werr, wseq, logVars, histVars, now>>

\* runJobs: jobs <- i (blocks while the channel holds conc indices)
Dispatch ==
    /\ mpc = "dispatch"
    /\ di < total
    /\ Len(jobs) < conc
    /\ jobs' = Append(jobs, di)
    /\ di' = di + 1
    /\ UNCHANGED <<cfgVars, fnVars, acctVars, recVars, mainVars, pickVars, conc, jobsClosed, durations, successes, errors,
                   idx, start, okCounts, errCounts, perSec, workerVars, logVars,
                   histVars, mpc, now>>

\* runJobs: close(jobs)
CloseJobs ==
    /\ mpc = "dispatch"
    /\ ~(di < total)
    /\ jobsClosed' = TRUE
    /\ mpc' = "wait"
    /\ UNCHANGED <<cfgVars, fnVars, acctVars, recVars, mainVars, pickVars, conc, jobs, di, durations, successes, errors,
                   idx, start, okCounts, errCounts, perSec, workerVars, logVars,
                   histVars, now>>

\* wg.Wait() and the return of the jobRun
WaitWorkers ==
    /\ mpc = "wait"
    /\ \A w \in Active : pc[w] = "done"
    /\ mpc' = "returned"
    /\ UNCHANGED <<cfgVars, fnVars, acctVars, recVars, mainVars, pickVars, runVars, workerVars, logVars, histVars, now>>

\* ---------------------------------------------------------------- the work function
\* the call of api.WaitMasterchainBlock(ctx, seq, ...)
InvokeWait(w, seq) ==
    /\ pc' = [pc EXCEPT ![w] = "wait"]
    /\ wseq' = [wseq EXCEPT ![w] = seq]
    /\ opCalls' = opCalls + 1

\* runAccountTest work: if masterErr != nil { return masterErr }
AccountFnFails == scenario = "accounts" /\ masterErr

\* t0 := time.Now(); err := fn(i), up to the first blocking point of work
CallFn(w, i) ==
    /\ widx' = [widx EXCEPT ![w] = i]
    /\ t0' = [t0 EXCEPT ![w] = now]
    /\ werr' = [werr EXCEPT ![w] = AccountFnFails]
    /\ calls' = [calls EXCEPT ![i] = @ + 1]
    /\ IF scenario = "accounts"
       THEN /\ pc' = [pc EXCEPT ![w] = IF AccountFnFails THEN AfterFn ELSE "acct"]
            /\ UNCHANGED <<wseq, opCalls>>
       ELSE IF picker.on
            THEN /\ pc' = [pc EXCEPT ![w] = "pick"]
                 /\ UNCHANGED <<wseq, opCalls>>
            ELSE InvokeWait(w, SeqAt(i))

\* lockedRand.Intn: the values it may return
Intn(n) == IF n <= 0 THEN {0} ELSE 0..(n - 1)

\* pick, range mode: the values it may return
PickRange(from, to) ==
    LET span == to - from + 1
    IN  IF span <= 1 THEN {from} ELSE { from + r : r \in Intn(span) }

\* a window start that is not clamped to block 1
WindowStart_NoClamp(latest, window) == latest - window + 1

\* pick, last mode: first block of the window
WindowStart(latest, window) ==
    LET s == latest - window + 1
    IN  IF s < 1 THEN 1 ELSE s

\* pick, last mode: the values it may return for a cached bound
PickLast(latest, window) ==
    LET s == WindowStart(latest, window)
        span == latest - s + 1
    IN  IF span <= 1 THEN {latest} ELSE { s + r : r \in Intn(span) }

\* a refresh test that ignores the interval
NeedRefresh_Always(p, t) == TRUE

\* pick: p.latest == 0 || (p.refresh > 0 && now.Sub(p.lastRefresh) >= p.refresh)
NeedRefresh(p, t) ==
    \/ p.latest = 0
    \/ (p.refresh > 0 /\ t - p.lastRefresh >= p.refresh)

\* a fetch failure that still stamps the refresh time
PickerAfterFail_Stamped(p, t) == [p EXCEPT !.lastRefresh = t, !.mu = NoWorker]

\* pick: the picker after GetMasterchainInfo failed: return 0, err (p.mu released)
PickerAfterFail(p, t) == [p EXCEPT !.mu = NoWorker]

\* a fetch that stores the bound without the refresh time
PickerAfterOk_NoStamp(p, b, t) == [p EXCEPT !.latest = b, !.mu = NoWorker]

\* pick: the picker after GetMasterchainInfo returned b: p.latest, p.lastRefresh
PickerAfterOk(p, b, t) ==
    [p EXCEPT !.latest = b, !.lastRefresh = t, !.mu = NoWorker]

\* pick: p.mu.Lock() and everything up to the return or to the bound fetch
PickEnter(w) ==
    /\ pc[w] = "pick"
    /\ picker.mu = NoWorker
    /\ IF picker.mode = "range"
       THEN /\ \E seq \in PickRange(picker.from, picker.to) : InvokeWait(w, seq)
            /\ UNCHANGED <<picker, pickNow, fetchCount, lastFetch, lastOkFetch>>
       ELSE /\ IF NeedRefresh(picker, now)
               THEN /\ picker' = [picker EXCEPT !.mu = w]
                    /\ pickNow' = now
                    /\ fetchCount' = fetchCount + 1
                    /\ lastFetch' = now
                    /\ UNCHANGED lastOkFetch
                    /\ pc' = [pc EXCEPT ![w] = "fetch"]
                    /\ UNCHANGED <<wseq, opCalls>>
               ELSE /\ \E seq \in PickLast(picker.latest, picker.window) :
                          InvokeWait(w, seq)
                    /\ UNCHANGED <<picker, pickNow, fetchCount, lastFetch, lastOkFetch>>
    /\ UNCHANGED <<cfgVars, fnVars, acctVars, recVars, mainVars, runVars, widx, t0, werr, logVars, calls, claimed, mpc, now>>

\* pick: GetMasterchainInfo fails; pick and work return the error
FetchFail(w) ==
    /\ pc[w] = "fetch"
    /\ picker' = PickerAfterFail(picker, pickNow)
    /\ pickNow' = 0
    /\ werr' = [werr EXCEPT ![w] = TRUE]
    /\ pc' = [pc EXCEPT ![w] = AfterFn]
    /\ UNCHANGED <<cfgVars, fnVars, acctVars, recVars, mainVars, fetchCount, lastFetch, lastOkFetch, runVars,
                   widx, t0, wseq, logVars, histVars, mpc, now>>

\* pick: GetMasterchainInfo returns the bound b
FetchOk(w) ==
    /\ pc[w] = "fetch"
    /\ \E b \in 1..MaxBound :
          /\ picker' = PickerAfterOk(picker, b, pickNow)
          /\ \E seq \in PickLast(b, picker.window) : InvokeWait(w, seq)
    /\ lastOkFetch' = lastFetch
    /\ pickNow' = 0
    /\ UNCHANGED <<cfgVars, fnVars, acctVars, recVars, mainVars, fetchCount, lastFetch, runVars, widx, t0, werr, logVars, calls, claimed,
                   mpc, now>>

\* a send that drops the entry when the buffer is full
LogRequest_DropWhenFull(w, req) ==
    /\ ~chClosed
    /\ ch' = IF Len(ch) < LogCap
             THEN Append(ch, [w |-> w, n |-> nlog[w] + 1, req |-> req, ok |-> ~werr[w]])
             ELSE ch
    /\ nlog' = [nlog EXCEPT ![w] = @ + 1]

\* logRequest: l.ch <- entry
LogRequest(w, req) ==
    /\ Len(ch) < LogCap
    /\ ~chClosed
    /\ ch' = Append(ch, [w |-> w, n |-> nlog[w] + 1, req |-> req, ok |-> ~werr[w]])
    /\ nlog' = [nlog EXCEPT ![w] = @ + 1]

\* api.WaitMasterchainBlock returns
WaitReturn(w) ==
    /\ pc[w] = "wait"
    /\ \E e \in BOOLEAN :
          /\ werr' = [werr EXCEPT ![w] = e]
          /\ pc' = [pc EXCEPT ![w] = IF logOn THEN "log1"
                                     ELSE IF e THEN AfterFn ELSE "get"]
    /\ UNCHANGED <<cfgVars, fnVars, acctVars, recVars, mainVars, pickVars, runVars, widx, t0, wseq, logVars, histVars,
                   mpc, now>>

\* a work function that goes on to GetBlockRaw whatever the first call returned
LogWait_Continue(w) ==
    /\ pc[w] = "log1"
    /\ LogRequest(w, "WaitMasterchainBlock")
    /\ pc' = [pc EXCEPT ![w] = "get"]
    /\ UNCHANGED <<cfgVars, fnVars, acctVars, recVars, mainVars, pickVars, runVars, widx, t0, werr, wseq, chClosed, wbuf,
                   file, fileClosed, lpc, histVars, mpc, now>>

\* logRequest(..., "WaitMasterchainBlock", ...) and the return on error
LogWait(w) ==
    /\ pc[w] = "log1"
    /\ LogRequest(w, "WaitMasterchainBlock")
    /\ pc' = [pc EXCEPT ![w] = IF werr[w] THEN AfterFn ELSE "get"]
    /\ UNCHANGED <<cfgVars, fnVars, acctVars, recVars, mainVars, pickVars, runVars, widx, t0, werr, wseq, chClosed, wbuf,
                   file, fileClosed, lpc, histVars, mpc, now>>

\* api.GetBlockRaw returns
GetReturn(w) ==
    /\ pc[w] = "get"
    /\ \E e \in BOOLEAN :
          /\ werr' = [werr EXCEPT ![w] = e]
          /\ pc' = [pc EXCEPT ![w] = IF logOn THEN "log2" ELSE AfterFn]
    /\ UNCHANGED <<cfgVars, fnVars, acctVars, recVars, mainVars, pickVars, runVars, widx, t0, wseq, logVars, histVars,
                   mpc, now>>

\* logRequest(..., "GetBlockRaw", ...) and the return of work
LogGet(w) ==
    /\ pc[w] = "log2"
    /\ LogRequest(w, "GetBlockRaw")
    /\ pc' = [pc EXCEPT ![w] = AfterFn]
    /\ UNCHANGED <<cfgVars, fnVars, acctVars, recVars, mainVars, pickVars, runVars, widx, t0, werr, wseq, chClosed, wbuf,
                   file, fileClosed, lpc, histVars, mpc, now>>

\* ---------------------------------------------------------------- runAccountTest
\* the log entry of the GetMasterchainInfo call made by runAccountTest itself
MasterEntry(e) == [w |-> NoWorker, n |-> 1, req |-> "GetMasterchainInfo", ok |-> ~e]

\* runAccountTest: api.GetMasterchainInfo, masterErr, logRequest(...)
AccountMaster ==
    /\ mpc = "master"
    /\ \E e \in BOOLEAN :
          /\ masterErr' = e
          /\ IF logOn
             THEN /\ Len(ch) < LogCap
                  /\ ~chClosed
                  /\ ch' = Append(ch, MasterEntry(e))
             ELSE UNCHANGED ch
    /\ mpc' = "start"
    /\ UNCHANGED <<cfgVars, fnVars, recVars, mainVars, pickVars, runVars, workerVars,
                   chClosed, wbuf, file,
                   fileClosed, lpc, nlog, histVars, now>>

\* targetClient.GetAccountStateRaw returns
AcctReturn(w) ==
    /\ pc[w] = "acct"
    /\ \E e \in BOOLEAN :
          /\ werr' = [werr EXCEPT ![w] = e]
          /\ pc' = [pc EXCEPT ![w] = IF logOn THEN "log3" ELSE AfterFn]
    /\ UNCHANGED <<cfgVars, fnVars, acctVars, recVars, mainVars, pickVars, runVars, widx, t0, wseq, logVars,
                   histVars, mpc, now>>

\* logRequest(..., "GetAccountStateRaw", ...) and the return of work
LogAcct(w) ==
    /\ pc[w] = "log3"
    /\ LogRequest(w, "GetAccountStateRaw")
    /\ pc' = [pc EXCEPT ![w] = AfterFn]
    /\ UNCHANGED <<cfgVars, fnVars, acctVars, recVars, mainVars, pickVars, runVars, widx, t0, werr, wseq,
                   chClosed, wbuf, file, fileClosed, lpc, histVars, mpc, now>>

\* ---------------------------------------------------------------- runJobs workers
\* a receive that leaves the index in the channel
JobsAfterRecv_Peek(q) == q

\* for idx := range jobs: the channel after a receive
JobsAfterRecv(q) == Tail(q)

\* for idx := range jobs: receive an index and call fn
WorkerRecv(w) ==
    /\ pc[w] = "recv"
    /\ jobs # <<>>
    /\ jobs' = JobsAfterRecv(jobs)
    /\ CallFn(w, Head(jobs))
    /\ UNCHANGED <<cfgVars, fnVars, acctVars, recVars, mainVars, pickVars, conc, jobsClosed, di, durations, successes,
                   errors, idx, start, okCounts, errCounts, perSec, logVars, claimed,
                   mpc, now>>

\* for idx := range jobs: the channel is closed and drained; wg.Done()
WorkerExit(w) ==
    /\ pc[w] = "recv"
    /\ jobs = <<>>
    /\ jobsClosed
    /\ pc' = [pc EXCEPT ![w] = "done"]
    /\ UNCHANGED <<cfgVars, fnVars, acctVars, recVars, mainVars, pickVars, runVars, widx, t0, werr, wseq, logVars,
                   histVars, mpc, now>>

\* the value stored for an outcome: the sentinel -1 on failure, else the latency
Outcome(err, d) == IF err THEN 0 - 1 ELSE d

\* a worker that returns on the first failure
AfterRecord_Abort(err) == IF err THEN "done" ELSE LoopTop

\* where a worker goes after recording an outcome: back to the top of its loop
AfterRecord(err) == LoopTop

\* the end of a loop iteration: the iteration's locals (idx, t0, err, seq) die
EndIteration(w) ==
    /\ widx' = [widx EXCEPT ![w] = 0]
    /\ t0' = [t0 EXCEPT ![w] = 0]
    /\ werr' = [werr EXCEPT ![w] = FALSE]
    /\ wseq' = [wseq EXCEPT ![w] = 0]

\* runJobs: d := time.Since(t0); durations[idx] = ...; atomic.AddInt64(...)
RecordFixed(w) ==
    /\ pc[w] = "record"
    /\ ~(duration > 0)
    /\ durations' = [durations EXCEPT ![widx[w] + 1] = Outcome(werr[w], now - t0[w])]
    /\ IF werr[w]
       THEN errors' = errors + 1 /\ UNCHANGED successes
       ELSE successes' = successes + 1 /\ UNCHANGED errors
    /\ pc' = [pc EXCEPT ![w] = AfterRecord(werr[w])]
    /\ EndIteration(w)
    /\ UNCHANGED <<cfgVars, fnVars, acctVars, recVars, mainVars, pickVars, conc, jobs, jobsClosed, di, idx, start,
                   okCounts, errCounts, perSec, logVars, histVars, mpc, now>>

\* ---------------------------------------------------------------- runTimedJobs workers
\* if time.Now().After(deadline) { return }
WorkerCheck(w) ==
    /\ pc[w] = "check"
    /\ IF AfterDeadline(now)
       THEN pc' = [pc EXCEPT ![w] = "done"]
       ELSE /\ idx < MaxClaims
            /\ pc' = [pc EXCEPT ![w] = "claim"]
    /\ UNCHANGED <<cfgVars, fnVars, acctVars, recVars, mainVars, pickVars, runVars, widx, t0, werr, wseq, logVars,
                   histVars, mpc, now>>

\* a claim that does not wrap around the item pool
ClaimIndex_NoWrap(counter, itemCount) == counter

\* i := int(atomic.AddUint64(&idx, 1)-1) % itemCount
ClaimIndex(counter, itemCount) == counter % itemCount

\* the claim of an index and the call of fn
WorkerClaim(w) ==
    /\ pc[w] = "claim"
    /\ idx' = idx + 1
    /\ claimed' = Append(claimed, ClaimIndex(idx, total))
    /\ CallFn(w, ClaimIndex(idx, total))
    /\ UNCHANGED <<cfgVars, fnVars, acctVars, recVars, mainVars, pickVars, conc, jobs, jobsClosed, di, durations,
                   successes, errors, start, okCounts, errCounts, perSec, logVars,
                   mpc, now>>

\* runTimedJobs: d, sec, the per-second series, then the flat list and the totals
RecordTimed(w) ==
    /\ pc[w] = "record"
    /\ duration > 0
    /\ LET d == now - t0[w]
           sec == SecOf(now)
       IN  /\ IF InSeries(sec, Buckets(duration))
              THEN IF werr[w]
                   THEN /\ errCounts' = [errCounts EXCEPT ![sec + 1] = @ + 1]
                        /\ UNCHANGED <<okCounts, perSec>>
                   ELSE /\ okCounts' = [okCounts EXCEPT ![sec + 1] = @ + 1]
                        /\ perSec' = [perSec EXCEPT ![sec + 1] = Append(@, d)]
                        /\ UNCHANGED errCounts
              ELSE UNCHANGED <<okCounts, errCounts, perSec>>
           /\ durations' = Append(durations, Outcome(werr[w], d))
    /\ IF werr[w]
       THEN errors' = errors + 1 /\ UNCHANGED successes
       ELSE successes' = successes + 1 /\ UNCHANGED errors
    /\ pc' = [pc EXCEPT ![w] = AfterRecord(werr[w])]
    /\ EndIteration(w)
    /\ UNCHANGED <<cfgVars, fnVars, acctVars, recVars, mainVars, pickVars, conc, jobs, jobsClosed, di, idx, start,
                   logVars, histVars, mpc, now>>

\* ---------------------------------------------------------------- reqLogger
\* bufio.Writer.Write of one encoded line: the buffer is written out when full
Encode(buf, f, entry) ==
    IF Len(buf) >= WBufCap
    THEN [w |-> <<entry>>, f |-> f \o buf]
    ELSE [w |-> Append(buf, entry), f |-> f]

\* l.w.Flush()
Flush(buf, f) == f \o buf

\* for entry := range l.ch: may the loop end?
ConsumerMayEnd == ch = <<>> /\ chClosed

\* for entry := range l.ch { enc.Encode(entry) }
ConsumerRecv ==
    /\ lpc = "range"
    /\ ch # <<>>
    /\ ch' = Tail(ch)
    /\ wbuf' = Encode(wbuf, file, Head(ch)).w
    /\ file' = Encode(wbuf, file, Head(ch)).f
    /\ UNCHANGED <<cfgVars, fnVars, acctVars, recVars, mainVars, pickVars, runVars, workerVars, chClosed, fileClosed, lpc,
                   nlog, histVars, mpc, now>>

\* the end of the loop; l.w.Flush(); l.f.Close(); l.wg.Done()
ConsumerFinish ==
    /\ lpc = "range"
    /\ ConsumerMayEnd
    /\ file' = Flush(wbuf, file)
    /\ wbuf' = <<>>
    /\ fileClosed' = TRUE
    /\ lpc' = "done"
    /\ UNCHANGED <<cfgVars, fnVars, acctVars, recVars, mainVars, pickVars, runVars, workerVars, ch, chClosed, nlog,
                   histVars, mpc, now>>

\* main: logger.Close() up to l.wg.Wait() (returns at once when l == nil)
LoggerClose ==
    /\ mpc = "returned"
    /\ IF logOn
       THEN chClosed' = TRUE /\ mpc' = "closewait"
       ELSE mpc' = "closed" /\ UNCHANGED chClosed
    /\ UNCHANGED <<cfgVars, fnVars, acctVars, recVars, mainVars, pickVars, runVars, workerVars, ch, wbuf, file, fileClosed,
                   lpc, nlog, histVars, now>>

\* a Close that does not wait for the consumer
CloseMayReturn_NoWait == TRUE

\* Close: l.wg.Wait() returns: may Close return?
CloseMayReturn == lpc = "done"

\* Close returns
LoggerClosed ==
    /\ mpc = "closewait"
    /\ CloseMayReturn
    /\ mpc' = "closed"
    /\ UNCHANGED <<cfgVars, fnVars, acctVars, recVars, mainVars, pickVars, runVars, workerVars, logVars, histVars, now>>

\* ---------------------------------------------------------------- the wall clock
Tick ==
    /\ mpc \in {"dispatch", "wait"}
    /\ now < MaxNow
    /\ now' = now + 1
    /\ UNCHANGED <<cfgVars, fnVars, acctVars, recVars, mainVars, pickVars, runVars, workerVars, logVars, histVars, mpc>>

\* ---------------------------------------------------------------- specifications
RunnerConfig ==
    /\ scenario = "blocks"
    /\ total \in 0..MaxItems
    /\ reqConc \in 0..MaxConc
    /\ duration \in 0..MaxDur

\* the runner alone: no picker (blocks-random off), no request log
InitRunner ==
    /\ RunnerConfig
    /\ logOn = FALSE
    /\ picker = NoPicker
    /\ InitCommon

\* the runner with the request log; a timed run is followed for one worker
InitLogger ==
    /\ RunnerConfig
    /\ duration > 0 => reqConc <= 1
    /\ logOn = TRUE
    /\ picker = NoPicker
    /\ InitCommon

\* the runner with the block picker (blocks-random); a timed run is followed for
\* one worker, one item and the longest duration
InitPicker ==
    /\ RunnerConfig
    /\ duration > 0 => (duration = MaxDur /\ total = 1 /\ reqConc = 1)
    /\ logOn = FALSE
    /\ picker \in RangePickers \cup LastPickers
    /\ InitCommon

NextFixed ==
    \/ StartFixed
    \/ Dispatch
    \/ CloseJobs
    \/ \E w \in Workers : WorkerRecv(w) \/ WorkerExit(w) \/ RecordFixed(w)

NextTimed ==
    \/ StartTimed
    \/ \E w \in Workers : WorkerCheck(w) \/ WorkerClaim(w) \/ RecordTimed(w)

NextWork ==
    \/ WaitWorkers
    \/ LoggerClose
    \/ Tick
    \/ \E w \in Workers : WaitReturn(w) \/ GetReturn(w)

NextRunner == NextFixed \/ NextTimed \/ NextWork

NextLog ==
    \/ ConsumerRecv
    \/ ConsumerFinish
    \/ LoggerClosed
    \/ \E w \in Workers : LogWait(w) \/ LogGet(w)

NextPick ==
    \E w \in Workers : PickEnter(w) \/ FetchFail(w) \/ FetchOk(w)

\* the account scenario with the request log; a timed run is followed for one
\* worker and one account (main runs it only with at least one account, and
\* parseIntList admits only concurrency levels above 0)
InitAccounts ==
    /\ scenario = "accounts"
    /\ total \in 1..MaxItems
    /\ reqConc \in 1..MaxConc
    /\ duration \in 0..MaxDur
    /\ duration > 0 => (total = 1 /\ reqConc = 1)
    /\ logOn = TRUE
    /\ picker = NoPicker
    /\ InitCommon

NextAccounts ==
    \/ AccountMaster
    \/ NextFixed
    \/ NextTimed
    \/ WaitWorkers
    \/ LoggerClose
    \/ Tick
    \/ ConsumerRecv
    \/ ConsumerFinish
    \/ LoggerClosed
    \/ \E w \in Workers : AcctReturn(w) \/ LogAcct(w)

NextLogger == NextRunner \/ NextLog
NextPicker == NextRunner \/ NextPick
SpecRunner == InitRunner /\ [][NextRunner]_vars
SpecLogger == InitLogger /\ [][NextLogger]_vars
SpecPicker == InitPicker /\ [][NextPicker]_vars
SpecAccounts == InitAccounts /\ [][NextAccounts]_vars

\* the goroutines of the run, and main, as fair processes: the Go scheduler runs
\* every runnable goroutine, external calls return, and the wall clock advances
WorkerStep(w) ==
    \/ WorkerRecv(w) \/ WorkerExit(w) \/ RecordFixed(w)
    \/ WorkerCheck(w) \/ WorkerClaim(w) \/ RecordTimed(w)
    \/ WaitReturn(w) \/ GetReturn(w)

MainStep ==
    StartFixed \/ StartTimed \/ Dispatch \/ CloseJobs \/ WaitWorkers \/ LoggerClose

FairSpecRunner ==
    /\ SpecRunner
    /\ WF_vars(Tick)
    /\ WF_vars(MainStep)
    /\ \A w \in Workers : WF_vars(WorkerStep(w))

\* ---------------------------------------------------------------- properties
Fixed == ~(duration > 0)
Timed == duration > 0 /\ total > 0
RunReturned == mpc \in {"returned", "closewait", "closed"}
InFn(w) ==
    pc[w] \in {"pick", "fetch", "wait", "log1", "get", "log2", "acct", "log3", "record"}
Items == 0..(total - 1)

RECURSIVE CountOf(_, _)
CountOf(s, v) ==
    IF s = <<>> THEN 0
    ELSE (IF Head(s) = v THEN 1 ELSE 0) + CountOf(Tail(s), v)

RECURSIVE SumCalls(_)
SumCalls(n) == IF n = 0 THEN 0 ELSE calls[n - 1] + SumCalls(n - 1)

\* C1: in a fixed dataset run the operation is invoked at most once per index at
\* every moment, never for an index outside 0..n-1, two workers never hold the
\* same slot of durations, and when runJobs returns every index 0..n-1 has been
\* invoked exactly once and Success + Errors = n.
C1_ExactlyOnce ==
    Fixed =>
        /\ \A i \in 0..(MaxItems - 1) : calls[i] <= (IF i < total THEN 1 ELSE 0)
        /\ \A w1 \in Workers : \A w2 \in Workers :
              (w1 # w2 /\ InFn(w1) /\ InFn(w2)) => widx[w1] # widx[w2]
        /\ RunReturned =>
              /\ \A i \in Items : calls[i] = 1
              /\ successes + errors = total
              /\ Len(durations) = total

\* a fixed run of MaxItems items on two workers has returned, with a failure
\* and a success
C1_Witness ==
    /\ Fixed /\ RunReturned
    /\ total = MaxItems /\ conc = 2
    /\ errors >= 1 /\ successes >= 1

\* C2 (as claimed): a timed run has ceil(D) buckets and, when it has returned,
\* the per-bucket success counts sum to Success and the per-bucket error
\* counts sum to Errors.
C2_BucketSums ==
    (Timed /\ RunReturned) =>
        /\ Len(okCounts) = Max(1, CeilDiv(duration, TicksPerSec))
        /\ Len(errCounts) = Len(okCounts)
        /\ SumSeq(okCounts) = successes
        /\ SumSeq(errCounts) = errors

\* C3: in a timed run a worker whose deadline check finds the deadline passed
\* returns, and a worker that has returned stays returned (it claims no index
\* and invokes no operation); every claimed operation is counted, whenever it
\* completes; and every worker returns and the run ends.
C3_CheckStops ==
    \A w \in Workers :
        /\ (pc[w] = "check" /\ now > start + duration /\ pc'[w] # "check")
              => pc'[w] = "done"
        /\ (pc[w] = "check" /\ pc'[w] = "done") => now > start + duration
        /\ pc[w] = "done" => pc'[w] = "done"
        /\ (pc[w] # "claim" /\ pc'[w] = "claim")
              => (pc[w] = "check" /\ ~(now > start + duration))
        /\ (idx' # idx \/ opCalls' # opCalls) => \E v \in Workers : pc[v] = "claim"

C3_AllCounted ==
    (Timed /\ RunReturned) =>
        /\ successes + errors = idx
        /\ Len(durations) = idx
        /\ \A w \in Active : pc[w] = "done"

\* C3: each worker of a timed run checks the deadline before every iteration
\* and stops for good once the check fails; at the return of the run every
\* claimed operation is counted and every worker has returned; and, every call
\* returning, the run does return.
C3_Deadline ==
    /\ [][Timed => C3_CheckStops]_vars
    /\ []C3_AllCounted
    /\ (Timed ~> RunReturned)

\* a timed run has returned and an operation was recorded after the deadline
\* (it was in flight when the deadline passed)
C3_Witness ==
    /\ Timed /\ RunReturned
    /\ idx >= 2
    /\ now > start + duration
    /\ SumSeq(okCounts) + SumSeq(errCounts) < idx

\* C4: a failed operation is recorded as the sentinel -1 and one increment of
\* the error count, the worker goes back to the top of its loop, and no index is
\* invoked again for it: a fixed run still invokes every index once, a timed
\* run keeps claiming until the deadline (a worker returns only after it).
C4_RecordStep ==
    \A w \in Workers :
        (pc[w] = "record" /\ werr[w] /\ pc'[w] # "record") =>
            /\ pc'[w] = (IF duration > 0 THEN "check" ELSE "recv")
            /\ errors' = errors + 1
            /\ successes' = successes
            /\ calls' = calls
            /\ IF duration > 0
               THEN durations' = Append(durations, 0 - 1)
               ELSE durations' = [durations EXCEPT ![widx[w] + 1] = 0 - 1]

C4_State ==
    /\ (Fixed \/ Timed) => errors = CountOf(durations, 0 - 1)
    /\ Fixed => \A i \in 0..(MaxItems - 1) : calls[i] <= 1
    /\ (Fixed /\ RunReturned) => (\A i \in Items : calls[i] = 1)
    /\ Timed => SumCalls(MaxItems) = idx
    /\ Timed => \A w \in Workers : pc[w] = "done" => now > start + duration

\* C4: every failure is one sentinel and one error, the worker goes on, and
\* the remaining items or iterations are still executed.
C4_ErrorsDoNotStop == [][C4_RecordStep]_vars /\ []C4_State

\* one worker, two items: the first failed, the second was still executed
C4_Witness ==
    /\ Fixed /\ RunReturned
    /\ conc = 1 /\ total = 2
    /\ durations[1] = 0 - 1
    /\ durations[2] >= 0

\* the workers started by the run, and the workers inside an operation
Started == { w \in Workers : pc[w] # "idle" }
InFlight == { w \in Workers : InFn(w) }

C12_Count ==
    /\ (Fixed /\ mpc # "start") =>
          conc = Max(1, IF reqConc < total THEN reqConc ELSE total)
    /\ (Timed /\ mpc # "start") => conc = Max(1, reqConc)
    /\ ((Fixed \/ Timed) /\ mpc # "start") =>
          /\ Started = 1..conc
          /\ Cardinality(Started) = conc
    /\ Cardinality(InFlight) <= Cardinality(Started)
    /\ ClampConc(37, 50) = 37

C12_Step ==
    (mpc # "start") =>
        /\ conc' = conc
        /\ \A w \in Workers : (pc[w] = "idle") = (pc'[w] = "idle")

\* C12: the worker count is max(1, min(requested, n)) in a fixed run and
\* max(1, requested) in a timed run, exactly that many workers are started, no
\* step after the start changes the count or starts or removes a worker, and
\* the operations in flight never outnumber the workers.
C12_WorkersFixed == []C12_Count /\ [][C12_Step]_vars

\* a fixed run of one item with two workers requested runs one worker, which
\* is inside the operation
C12_Witness ==
    /\ Fixed /\ total = 1 /\ reqConc = 2 /\ conc = 1
    /\ Cardinality(InFlight) = 1

C13_Queue ==
    /\ Len(jobs) <= conc
    /\ (Fixed /\ RunReturned) =>
          /\ jobs = <<>> /\ jobsClosed /\ di = total
          /\ \A w \in Active : pc[w] = "done"
    /\ (Fixed /\ ~RunReturned) =>
          ENABLED (NextFixed \/ WaitWorkers
                   \/ \E w \in Workers : WaitReturn(w) \/ GetReturn(w))

\* C13: in a fixed run the queue never holds more than conc indices, some
\* goroutine can always take a step until the run has returned (no deadlock),
\* the run returns only with the queue closed and drained, all n indices
\* dispatched and every worker finished, and every fixed run does return.
C13_RunJobsTerminates == []C13_Queue /\ (Fixed ~> RunReturned)

\* concurrency 0 was raised to one worker, and the dispatcher is blocked on the
\* full queue with an index still to send
C13_Witness ==
    /\ Fixed /\ reqConc = 0 /\ conc = 1
    /\ mpc = "dispatch" /\ di < total /\ Len(jobs) = conc

\* ---------------------------------------------------------------- request log
\* the entries recorded so far: worker w's n-th logRequest call
Recorded == UNION { { <<w, n>> : n \in 1..nlog[w] } : w \in Workers }

RECURSIVE SumLog(_)
SumLog(k) == IF k = 0 THEN 0 ELSE nlog[k] + SumLog(k - 1)

EntryIds(q) == { <<q[k].w, q[k].n>> : k \in 1..Len(q) }

NoDuplicates(q) ==
    \A j \in 1..Len(q) : \A k \in 1..Len(q) :
        (j # k) => <<q[j].w, q[j].n>> # <<q[k].w, q[k].n>>

\* the entries of one worker appear in the order in which it recorded them
WorkerOrder(q) ==
    \A j \in 1..Len(q) : \A k \in 1..Len(q) :
        (j < k /\ q[j].w = q[k].w) => q[j].n < q[k].n

\* C5: when Close has returned, every entry recorded is a line of the file,
\* nothing is left in the channel or in the writer's buffer, the consumer has
\* finished and the file is closed.
C5_DrainThenClose ==
    (logOn /\ mpc = "closed") =>
        /\ ch = <<>>
        /\ wbuf = <<>>
        /\ lpc = "done"
        /\ fileClosed
        /\ EntryIds(file) = Recorded

\* Close has returned on a log of at least three entries, more than the channel
\* and the writer's buffer hold at once
C5_Witness ==
    /\ logOn /\ mpc = "closed"
    /\ Len(file) >= 3
    /\ Len(file) > LogCap + 1

C7_BlockedStep ==
    \A w \in Workers :
        (Timed /\ pc[w] \in {"log1", "log2"} /\ Len(ch) >= LogCap
               /\ ~(now > start + duration))
            => ~(now' > start + duration /\ pc'[w] = pc[w] /\ Len(ch') >= LogCap)

RECURSIVE FailedEntries(_)
FailedEntries(q) ==
    IF q = <<>> THEN 0
    ELSE (IF Head(q).ok THEN 0 ELSE 1) + FailedEntries(Tail(q))

\* C11 (as claimed): with the request log on, the number of ok=false entries
\* recorded so far is at least the number of executions counted as errors.
C11_ErrorsLogged ==
    (logOn /\ total > 0) => FailedEntries(file \o wbuf \o ch) >= errors

\* ---------------------------------------------------------------- block picker
\* the step in which worker w's pick returns a seq
PickReturns(w) == picker.on /\ pc[w] \in {"pick", "fetch"} /\ pc'[w] = "wait"

\* the step in which pick calls GetMasterchainInfo
FetchInvoked == fetchCount' = fetchCount + 1

\* C8: every successful pick returns a seq of the selector's domain: in last
\* mode, with the cached bound B the pick used and window W, a seq in
\* [max(1, B-W+1), B]; in range mode a seq in [from, to].
C8_PickStep ==
    \A w \in Workers :
        PickReturns(w) =>
            IF picker.mode = "range"
            THEN picker.from <= wseq'[w] /\ wseq'[w] <= picker.to
            ELSE /\ wseq'[w] <= picker'.latest
                 /\ wseq'[w] >= picker'.latest - picker.window + 1
                 /\ wseq'[w] >= 1

C9_OncePerWindowStep ==
    (picker.refresh > 0 /\ FetchInvoked /\ fetchCount >= 1)
        => now - lastFetch >= picker.refresh

\* C9 (as claimed): every call of the bound source is at least R after the
\* call before it, and range mode makes none.
C9_OncePerWindow ==
    [][C9_OncePerWindowStep /\ (picker.mode = "range" => ~FetchInvoked)]_vars

\* C9 (amended): with R > 0 a call of the bound source is at least R after the
\* latest call that returned a bound; in range mode it is never invoked.
C9_OncePerWindowAfterOkStep ==
    (picker.refresh > 0 /\ FetchInvoked /\ lastOkFetch # ZeroTime)
        => now - lastOkFetch >= picker.refresh

\* C9 (amended): every call of the bound source is at least R after the latest
\* call that returned a bound, and range mode makes none.
C9_OncePerWindowAfterOk ==
    [][C9_OncePerWindowAfterOkStep /\ (picker.mode = "range" => ~FetchInvoked)]_vars

\* three picks of one worker with R = 2 ticks: a fetch at time 0, a pick that
\* reused the bound, and a second fetch that returned a bound once R had passed
C9_Witness ==
    /\ picker.mode = "last" /\ picker.refresh = 2
    /\ fetchCount = 2
    /\ opCalls = 3
    /\ picker.lastRefresh >= 2
    /\ lastOkFetch = picker.lastRefresh

\* C10: when the bound fetch of a pick fails, the cached bound and the refresh
\* time are left as they were and the work function returns the error without
\* invoking the operation; the runner counts the item as one error and the
\* worker goes on with its loop; a fixed run still ends with every index
\* invoked once and Success + Errors = n.
C10_FetchFailStep ==
    \A w \in Workers :
        /\ (pc[w] = "fetch" /\ pc'[w] # "fetch" /\ pc'[w] # "wait") =>
              /\ picker'.latest = picker.latest
              /\ picker'.lastRefresh = picker.lastRefresh
              /\ picker'.mu = NoWorker
              /\ opCalls' = opCalls
              /\ werr'[w]
              /\ pc'[w] = "record"
              /\ errors' = errors /\ successes' = successes
        /\ (pc[w] = "record" /\ werr[w] /\ pc'[w] # "record") =>
              /\ errors' = errors + 1
              /\ successes' = successes
              /\ pc'[w] = (IF duration > 0 THEN "check" ELSE "recv")

C10_State ==
    /\ (Fixed /\ RunReturned) =>
          /\ \A i \in Items : calls[i] = 1
          /\ successes + errors = total
    /\ (Fixed \/ Timed) => opCalls <= SumCalls(MaxItems)

\* C10: a failed bound fetch changes nothing in the picker, invokes no
\* operation, counts one error, and the run goes on to its normal end.
C10_FetchFailure == [][C10_FetchFailStep]_vars /\ []C10_State

\* one worker, two items: the fetch failed for item 0, which was counted as an
\* error with no operation invoked, and the worker is executing item 1
C10_Witness ==
    \E w \in Workers :
        /\ Fixed /\ conc = 1 /\ total = 2
        /\ errors = 1 /\ opCalls = 0 /\ fetchCount >= 1
        /\ widx[w] = 1 /\ pc[w] \in {"pick", "fetch", "wait"}
        /\ picker.latest = 0

\* ---------------------------------------------------------------- metrics
MaxSamples == 3
MaxLatency == 2
MaxSeriesLen == 2
LongSamples == 24

\* a float64 quotient, kept exact as numerator and denominator
Rat(n, d) == [num |-> n, den |-> d]

\* samples kept although they are failures
NonNeg_KeepAll(ds) == ds

\* computeMetrics: for _, d := range durations { if d < 0 { continue }; append }
NonNeg(ds) == SelectSeq(ds, LAMBDA d : ~(d < 0))

RECURSIVE Insert(_, _)
Insert(x, vs) ==
    IF vs = <<>> THEN <<x>>
    ELSE IF x < Head(vs) THEN <<x>> \o vs
         ELSE <<Head(vs)>> \o Insert(x, Tail(vs))

\* a sort that leaves the samples as they came
SortAsc_Unsorted(vs) == vs

\* sort.Slice(vals, func(i, j int) bool { return vals[i] < vals[j] })
RECURSIVE SortAsc(_)
SortAsc(vs) == IF vs = <<>> THEN <<>> ELSE Insert(Head(vs), SortAsc(Tail(vs)))

\* a rank rounded down
percentile_Floor(vals, p) ==
    IF Len(vals) = 0 THEN 0
    ELSE LET idx0 == ((p * Len(vals)) \div 100) - 1
             idx1 == IF idx0 < 0 THEN 0 ELSE idx0
             at == IF idx1 >= Len(vals) THEN Len(vals) - 1 ELSE idx1
         IN  vals[at + 1]

\* percentile: idx := int(math.Ceil((p/100.0)*float64(len(vals)))) - 1, clamped
percentile(vals, p) ==
    IF Len(vals) = 0 THEN 0
    ELSE LET idx0 == CeilDiv(p * Len(vals), 100) - 1
             idx1 == IF idx0 < 0 THEN 0 ELSE idx0
             at == IF idx1 >= Len(vals) THEN Len(vals) - 1 ELSE idx1
         IN  vals[at + 1]

ZeroMetrics ==
    [avg |-> Rat(0, 1), p50 |-> 0, p90 |-> 0, p95 |-> 0, p99 |-> 0, max |-> 0]

computeMetrics(ds, successCount) ==
    IF successCount = 0 THEN ZeroMetrics
    ELSE LET kept == NonNeg(ds)
         IN  IF Len(kept) = 0 THEN ZeroMetrics
             ELSE LET vals == SortAsc(kept)
                  IN  [avg |-> Rat(SumSeq(vals), Len(vals)),
                       p50 |-> percentile(vals, 50),
                       p90 |-> percentile(vals, 90),
                       p95 |-> percentile(vals, 95),
                       p99 |-> percentile(vals, 99),
                       max |-> vals[Len(vals)]]

\* applyMetrics: the Result with the statistics and RPS filled in
applyMetrics(r, ds) ==
    LET m == computeMetrics(ds, r.Success)
    IN  [Success |-> r.Success, Duration |-> r.Duration,
         AvgMs |-> m.avg, P50Ms |-> m.p50, P90Ms |-> m.p90, P95Ms |-> m.p95,
         P99Ms |-> m.p99, MaxMs |-> m.max,
         RPS |-> IF r.Duration > 0 THEN Rat(r.Success, r.Duration) ELSE Rat(0, 1)]

\* percentileSeries: per bucket, 0 when the bucket is empty
percentileSeries(ps) ==
    [p50 |-> [i \in 1..Len(ps) |-> percentile(SortAsc(ps[i]), 50)],
     p90 |-> [i \in 1..Len(ps) |-> percentile(SortAsc(ps[i]), 90)],
     p95 |-> [i \in 1..Len(ps) |-> percentile(SortAsc(ps[i]), 95)],
     p99 |-> [i \in 1..Len(ps) |-> percentile(SortAsc(ps[i]), 99)]]

\* all sequences over S of length at most n
SeqsUpTo(S, n) == UNION { [1..k -> S] : k \in 0..n }

\* a long sample list: n samples (a * i) mod 7, every c-th one a failure
LongList(n, a, c) ==
    [i \in 1..n |-> IF i % c = 0 THEN 0 - 1 ELSE (a * i) % 7]

\* the fixture of the percentile rule: 10 successful samples of 1 to 10 ms, in
\* ascending and in descending order of arrival
Fixture == <<1, 2, 3, 4, 5, 6, 7, 8, 9, 10>>
FixtureReversed == <<10, 9, 8, 7, 6, 5, 4, 3, 2, 1>>

SampleLists ==
    SeqsUpTo((0 - 1)..MaxLatency, MaxSamples)
        \cup { LongList(n, a, c) : n \in {10, 20, LongSamples}, a \in 1..3, c \in 2..4 }
        \cup { Fixture, FixtureReversed }

MetricsInputs ==
    { [fn |-> "applyMetrics", durations |-> ds, Success |-> sc, Duration |-> dur] :
        ds \in SampleLists, sc \in 0..MaxSamples, dur \in {0, 2} }

SeriesInputs ==
    { [fn |-> "percentileSeries", perSec |-> ps] :
        ps \in SeqsUpTo(SeqsUpTo(0..MaxLatency, MaxSeriesLen)
                          \cup { NonNeg(LongList(20, a, 3)) : a \in 1..2 },
                        MaxSeriesLen) }

InitMetrics ==
    /\ InitFn
    /\ input \in MetricsInputs \cup SeriesInputs

ApplyMetrics ==
    /\ input.fn = "applyMetrics"
    /\ Apply("applyMetrics",
             applyMetrics([Success |-> input.Success, Duration |-> input.Duration],
                          input.durations))

PercentileSeries ==
    /\ input.fn = "percentileSeries"
    /\ Apply("percentileSeries", percentileSeries(input.perSec))

NextMetrics == ApplyMetrics \/ PercentileSeries
SpecMetrics == InitMetrics /\ [][NextMetrics]_vars

\* the positions of the successful samples of a list
Successful(ds) == { i \in 1..Len(ds) : ds[i] >= 0 }

RECURSIVE SumSuccessful(_)
SumSuccessful(ds) ==
    IF ds = <<>> THEN 0
    ELSE (IF Head(ds) >= 0 THEN Head(ds) ELSE 0) + SumSuccessful(Tail(ds))

\* the nearest-rank index of percentile p among n samples
RankIndex(p, n) ==
    LET k == CeilDiv(p * n, 100) - 1
    IN  IF k < 0 THEN 0 ELSE IF k > n - 1 THEN n - 1 ELSE k

\* v is the sample at index k (from 0) of the successful samples in ascending
\* order: fewer than k + 1 of them are below v, at least k + 1 are at most v
AtRank(v, ds, k) ==
    /\ \E i \in Successful(ds) : ds[i] = v
    /\ Cardinality({ i \in Successful(ds) : ds[i] < v }) <= k
    /\ Cardinality({ i \in Successful(ds) : ds[i] <= v }) > k

\* C14: the statistics of every Result are ordered p50 <= p90 <= p95 <= p99 <=
\* max, and with a success count of 0, or with no successful sample, avg, the
\* percentiles and max are 0, RPS is 0 when the success count is 0, and the
\* Result is produced all the same.
C14_OrderedOrZero ==
    (fpc = "applyMetrics") =>
        /\ output.P50Ms <= output.P90Ms
        /\ output.P90Ms <= output.P95Ms
        /\ output.P95Ms <= output.P99Ms
        /\ output.P99Ms <= output.MaxMs
        /\ (input.Success = 0 \/ Successful(input.durations) = {}) =>
              /\ output.AvgMs.num = 0
              /\ output.P50Ms = 0 /\ output.P90Ms = 0 /\ output.P95Ms = 0
              /\ output.P99Ms = 0 /\ output.MaxMs = 0
        /\ input.Success = 0 => output.RPS.num = 0

\* a run of two operations that both failed got a Result of zeros
C14_Witness ==
    /\ fpc = "applyMetrics"
    /\ input.durations = <<0 - 1, 0 - 1>>
    /\ input.Success = 0 /\ input.Duration = 2
    /\ output.MaxMs = 0 /\ output.RPS.num = 0

\* C15: with n >= 1 successful samples and a success count above 0, each
\* reported percentile p is the sample at nearest-rank index
\* clamp(ceil(p*n/100) - 1) of the successful samples in ascending order, max
\* is their largest and avg their mean, wherever the failed samples stand; each
\* bucket of the per-second series follows the same rule, and is 0 when empty.
C15_NearestRank ==
    /\ (fpc = "applyMetrics" /\ input.Success # 0
          /\ Successful(input.durations) # {}) =>
          LET ds == input.durations
              n == Cardinality(Successful(ds))
          IN  /\ AtRank(output.P50Ms, ds, RankIndex(50, n))
              /\ AtRank(output.P90Ms, ds, RankIndex(90, n))
              /\ AtRank(output.P95Ms, ds, RankIndex(95, n))
              /\ AtRank(output.P99Ms, ds, RankIndex(99, n))
              /\ AtRank(output.MaxMs, ds, n - 1)
              /\ output.AvgMs = Rat(SumSuccessful(ds), n)
    /\ (fpc = "percentileSeries") =>
          \A i \in 1..Len(input.perSec) :
              LET b == input.perSec[i]
                  n == Len(b)
              IN  IF n = 0
                  THEN /\ output.p50[i] = 0 /\ output.p90[i] = 0
                       /\ output.p95[i] = 0 /\ output.p99[i] = 0
                  ELSE /\ AtRank(output.p50[i], b, RankIndex(50, n))
                       /\ AtRank(output.p90[i], b, RankIndex(90, n))
                       /\ AtRank(output.p95[i], b, RankIndex(95, n))
                       /\ AtRank(output.p99[i], b, RankIndex(99, n))

\* a list of LongSamples samples with failures among them, whose p50, p90 and
\* max differ
C15_Witness ==
    /\ fpc = "applyMetrics"
    /\ Len(input.durations) = LongSamples
    /\ Cardinality(Successful(input.durations)) < LongSamples
    /\ input.Success # 0
    /\ output.P50Ms < output.P90Ms
    /\ output.P90Ms < output.MaxMs

\* ---------------------------------------------------------------- report: downsampling
MaxSeries == 12
MaxPoints == 5
BigSeries == 1000
BigPoints == 100

\* a step rounded down
SampleStep_Floor(n, maxPoints) == Max(1, n \div maxPoints)

\* sampleIndices: step := int(math.Ceil(float64(n) / float64(maxPoints))), >= 1
SampleStep(n, maxPoints) == Max(1, CeilDiv(n, maxPoints))

\* sampleIndices: for i := 0; i < n; i += step { idxs = append(idxs, i) }
RECURSIVE Stride(_, _, _)
Stride(i, n, step) == IF i < n THEN <<i>> \o Stride(i + step, n, step) ELSE <<>>

\* the strided indices without the forced last index
sampleIndices_NoLast(n, maxPoints) ==
    IF n <= 0 THEN <<>>
    ELSE IF maxPoints <= 0 \/ n <= maxPoints THEN [i \in 1..n |-> i - 1]
         ELSE Stride(0, n, SampleStep(n, maxPoints))

sampleIndices(n, maxPoints) ==
    IF n <= 0 THEN <<>>
    ELSE IF maxPoints <= 0 \/ n <= maxPoints THEN [i \in 1..n |-> i - 1]
         ELSE LET idxs == Stride(0, n, SampleStep(n, maxPoints))
              IN  IF idxs[Len(idxs)] # n - 1 THEN Append(idxs, n - 1) ELSE idxs

\* sampleInts: the elements of src at the indices that are inside src
RECURSIVE sampleInts(_, _)
sampleInts(src, idxs) ==
    IF Len(src) = 0 \/ Len(idxs) = 0 THEN <<>>
    ELSE LET rest == IF Len(idxs) = 1 THEN <<>> ELSE sampleInts(src, Tail(idxs))
         IN  IF Head(idxs) >= 0 /\ Head(idxs) < Len(src)
             THEN <<src[Head(idxs) + 1]>> \o rest
             ELSE rest

sampleFloats(src, idxs) == sampleInts(src, idxs)

\* the body of the loops of downsampleResults, downsampleMethodSeries and
\* downsampleErrorSeries for one series v, a record of parallel arrays
downsampleSeries(v, maxPoints) ==
    IF maxPoints <= 0 THEN v
    ELSE IF Len(v.Sec) = 0 \/ Len(v.Sec) <= maxPoints THEN v
         ELSE LET idxs == sampleIndices(Len(v.Sec), maxPoints)
              IN  [f \in DOMAIN v |->
                     IF f = "Sec" THEN sampleInts(v[f], idxs)
                     ELSE sampleFloats(v[f], idxs)]

\* writeHTMLReport: if maxPoints < 0 { maxPoints = 0 }, then the downsampling
writeHTMLReport(v, maxPoints) ==
    downsampleSeries(v, IF maxPoints < 0 THEN 0 ELSE maxPoints)

ResultFields == {"Sec", "RPS", "Err", "P50", "P90", "P95", "P99"}
MethodFields == {"Sec", "P50", "P90", "P95", "P99", "OK", "Err"}
ErrorFields == {"Sec", "Cnt"}

\* a series of n buckets: Sec[i] = i as runTimedJobs numbers them
MakeSeries(fields, n, a) ==
    [f \in fields |-> IF f = "Sec" THEN [i \in 1..n |-> i]
                      ELSE [i \in 1..n |-> (a * i) % 5]]

IndexInputs ==
    { [fn |-> "sampleIndices", n |-> n, maxPoints |-> m] :
        n \in 0..MaxSeries, m \in (0 - 1)..MaxPoints }
      \cup { [fn |-> "sampleIndices", n |-> BigSeries, maxPoints |-> BigPoints] }

ReportInputs ==
    { [fn |-> "writeHTMLReport", series |-> MakeSeries(fs, n, a), maxPoints |-> m] :
        fs \in {ResultFields, MethodFields, ErrorFields},
        n \in 0..MaxSeries, a \in 1..2, m \in (0 - 1)..MaxPoints }

InitDownsample ==
    /\ InitFn
    /\ input \in IndexInputs \cup ReportInputs

SampleIndices ==
    /\ input.fn = "sampleIndices"
    /\ Apply("sampleIndices", sampleIndices(input.n, input.maxPoints))

WriteHTMLReport ==
    /\ input.fn = "writeHTMLReport"
    /\ Apply("writeHTMLReport", writeHTMLReport(input.series, input.maxPoints))

NextDownsample == SampleIndices \/ WriteHTMLReport
SpecDownsample == InitDownsample /\ [][NextDownsample]_vars

\* C16: for N > M > 0 the kept indices are exactly the multiples of
\* step = ceil(N/M) below N together with N-1, in strictly increasing order,
\* from 0 to N-1, at most M+1 of them (1000 and 100 give at most 101); and the
\* arrays of a downsampled series all have that length, point j of each being
\* the point of the original at the j-th kept index.
C16_KeptIndices ==
    /\ (fpc = "sampleIndices" /\ input.n > input.maxPoints /\ input.maxPoints > 0) =>
          LET N == input.n
              M == input.maxPoints
              step == CeilDiv(N, M)
          IN  /\ { output[j] : j \in 1..Len(output) }
                    = { i \in 0..(N - 1) : i % step = 0 } \cup {N - 1}
              /\ \A j \in 1..(Len(output) - 1) : output[j] < output[j + 1]
              /\ output[1] = 0
              /\ output[Len(output)] = N - 1
              /\ Len(output) <= M + 1
    /\ (fpc = "writeHTMLReport" /\ Len(input.series.Sec) > input.maxPoints
          /\ input.maxPoints > 0) =>
          LET N == Len(input.series.Sec)
              idxs == sampleIndices(N, input.maxPoints)
          IN  /\ DOMAIN output = DOMAIN input.series
              /\ \A f \in DOMAIN output :
                    /\ Len(output[f]) = Len(idxs)
                    /\ \A j \in 1..Len(idxs) :
                          output[f][j] = input.series[f][idxs[j] + 1]

\* 12 points with a budget of 5: step 3 keeps 0, 3, 6, 9 and the last index 11
\* is added
C16_Witness ==
    /\ fpc = "sampleIndices"
    /\ input.n = 12 /\ input.maxPoints = 5
    /\ output = <<0, 3, 6, 9, 11>>

MaxFragments == 3

UpperCase ==
    <<"A", "B", "C", "D", "E", "F", "G", "H", "I", "J", "K", "L", "M", "N",
      "O", "P", "Q", "R", "S", "T", "U", "V", "W", "X", "Y", "Z">>
LowerCase ==
    <<"a", "b", "c", "d", "e", "f", "g", "h", "i", "j", "k", "l", "m", "n",
      "o", "p", "q", "r", "s", "t", "u", "v", "w", "x", "y", "z">>
WhiteSpace == {" ", "\t", "\n"}

PatDeadline ==
    <<"c", "o", "n", "t", "e", "x", "t", " ", "d", "e", "a", "d", "l", "i",
      "n", "e", " ", "e", "x", "c", "e", "e", "d", "e", "d">>
PatTimeout ==
    <<"t", "i", "m", "e", "o", "u", "t">>
PatUnknownQuery ==
    <<"u", "n", "k", "n", "o", "w", "n", " ", "q", "u", "e", "r", "y">>
PatConnReset ==
    <<"c", "o", "n", "n", "e", "c", "t", "i", "o", "n", " ", "r", "e", "s",
      "e", "t">>
PatBrokenPipe ==
    <<"b", "r", "o", "k", "e", "n", " ", "p", "i", "p", "e">>
PatEOF ==
    <<"e", "o", "f">>
PatCanceled ==
    <<"c", "a", "n", "c", "e", "l", "e", "d">>
PatNotFound ==
    <<"n", "o", "t", " ", "f", "o", "u", "n", "d">>
FragEOFUpper ==
    <<"E", "O", "F">>
FragDeadlineMixed ==
    <<"C", "o", "n", "t", "e", "x", "t", " ", "D", "e", "a", "d", "l", "i",
      "n", "e", " ", "E", "x", "c", "e", "e", "d", "e", "d">>
FragTime ==
    <<"T", "i", "m", "e">>
FragOut ==
    <<"o", "u", "t">>
FragE ==
    <<"e">>
FragOf ==
    <<"O", "F">>
FragSpace ==
    <<" ">>
FragTab ==
    <<"\t">>
FragColon ==
    <<":", " ">>
FragDial ==
    <<"d", "i", "a", "l", " ", "t", "c", "p">>
FragBlock ==
    <<"b", "l", "o", "c", "k", " ">>

Fragments ==
    { PatDeadline, PatTimeout, PatUnknownQuery, PatConnReset, PatBrokenPipe,
      PatEOF, PatCanceled, PatNotFound, FragEOFUpper, FragDeadlineMixed,
      FragTime, FragOut, FragE, FragOf, FragSpace, FragTab, FragColon, FragDial,
      FragBlock }

RECURSIVE Concat(_)
Concat(fs) == IF fs = <<>> THEN <<>> ELSE Head(fs) \o Concat(Tail(fs))

\* strings.ToLower
ToLower(str) ==
    [i \in 1..Len(str) |->
        IF \E k \in 1..Len(UpperCase) : UpperCase[k] = str[i]
        THEN LowerCase[CHOOSE k \in 1..Len(UpperCase) : UpperCase[k] = str[i]]
        ELSE str[i]]

\* strings.TrimSpace
RECURSIVE TrimLeft(_)
TrimLeft(str) ==
    IF str # <<>> /\ Head(str) \in WhiteSpace THEN TrimLeft(Tail(str)) ELSE str

RECURSIVE TrimRight(_)
TrimRight(str) ==
    IF str # <<>> /\ str[Len(str)] \in WhiteSpace
    THEN TrimRight(SubSeq(str, 1, Len(str) - 1))
    ELSE str

TrimSpace(str) == TrimRight(TrimLeft(str))

\* strings.Contains
Contains(str, pat) ==
    \E i \in 0..(Len(str) - Len(pat)) : SubSeq(str, i + 1, i + Len(pat)) = pat

\* a normalisation that forgets the lower-casing
Normalize_NoLower(str) == TrimSpace(str)

\* classifyError: v := strings.ToLower(strings.TrimSpace(s))
Normalize(str) == ToLower(TrimSpace(str))

\* classifyError: the switch, case by case
classifyError(str) ==
    LET v == Normalize(str)
    IN  IF v = <<>> THEN "unknown"
        ELSE IF Contains(v, PatDeadline) \/ Contains(v, PatTimeout) THEN "timeout"
        ELSE IF Contains(v, PatUnknownQuery) THEN "unknown_query"
        ELSE IF Contains(v, PatConnReset) THEN "conn_reset"
        ELSE IF Contains(v, PatBrokenPipe) THEN "broken_pipe"
        ELSE IF Contains(v, PatEOF) THEN "eof"
        ELSE IF Contains(v, PatCanceled) THEN "canceled"
        ELSE IF Contains(v, PatNotFound) THEN "not_found"
        ELSE "other"

Messages == { Concat(fs) : fs \in SeqsUpTo(Fragments, MaxFragments) }

InitClassify ==
    /\ InitFn
    /\ input \in { [fn |-> "classifyError", Error |-> m] : m \in Messages }

ClassifyError ==
    /\ input.fn = "classifyError"
    /\ Apply("classifyError", classifyError(input.Error))

NextClassify == ClassifyError
SpecClassify == InitClassify /\ [][NextClassify]_vars

\* the priority list of the classification: code and patterns, in order
Priority ==
    << [code |-> "timeout", pats |-> {PatDeadline, PatTimeout}],
       [code |-> "unknown_query", pats |-> {PatUnknownQuery}],
       [code |-> "conn_reset", pats |-> {PatConnReset}],
       [code |-> "broken_pipe", pats |-> {PatBrokenPipe}],
       [code |-> "eof", pats |-> {PatEOF}],
       [code |-> "canceled", pats |-> {PatCanceled}],
       [code |-> "not_found", pats |-> {PatNotFound}] >>

\* the ranks of the priority list that match a lower-cased, trimmed message
Matching(v) ==
    { k \in 1..Len(Priority) : \E pat \in Priority[k].pats : Contains(v, pat) }

\* C18: classifyError gives every message one code: unknown when the message is
\* empty after trimming, else the code of the first entry of the priority list
\* with a pattern inside the lower-cased, trimmed message, else other.
C18_FirstMatchWins ==
    (fpc = "classifyError") =>
        LET v == ToLower(TrimSpace(input.Error))
        IN  /\ output \in { Priority[k].code : k \in 1..Len(Priority) }
                            \cup {"unknown", "other"}
            /\ (v = <<>>) => output = "unknown"
            /\ (v # <<>> /\ Matching(v) = {}) => output = "other"
            /\ (v # <<>> /\ Matching(v) # {}) =>
                  output = Priority[CHOOSE k \in Matching(v) :
                                      \A j \in Matching(v) : k <= j].code
            /\ (input.Error = PatDeadline) => output = "timeout"
            /\ (input.Error = FragEOFUpper) => output = "eof"
            /\ (\A i \in 1..Len(input.Error) : input.Error[i] \in WhiteSpace)
                  => output = "unknown"

\* a message holding both "EOF" and, later, "connection reset" is conn_reset
C18_Witness ==
    /\ fpc = "classifyError"
    /\ input.Error = FragEOFUpper \o FragColon \o PatConnReset
    /\ output = "conn_reset"

\* ---------------------------------------------------------------- report: series from the log
MaxLog == 3
MaxTs == 3

\* the entries the logger can have written (Ts in ticks; a failed entry
\* carries its message, a successful one its latency)
LogEntries ==
    { [Config |-> "cfg", Mode |-> "blocks", Concurrency |-> 1, Request |-> req,
       OK |-> TRUE, Ts |-> t, LatencyMs |-> l, Error |-> <<>>] :
        req \in {"WaitMasterchainBlock", "GetBlockRaw"}, t \in 0..MaxTs, l \in 1..2 }
      \cup
    { [Config |-> "cfg", Mode |-> "blocks", Concurrency |-> 1, Request |-> req,
       OK |-> FALSE, Ts |-> t, LatencyMs |-> 0, Error |-> m] :
        req \in {"WaitMasterchainBlock", "GetBlockRaw"}, t \in 0..MaxTs,
        m \in {FragEOFUpper, PatDeadline} }

Logs == SeqsUpTo(LogEntries, MaxLog)

methodKey(e) ==
    [Config |-> e.Config, Mode |-> e.Mode, Concurrency |-> e.Concurrency,
     Method |-> e.Request]

errorSeriesKey(e) ==
    [Config |-> e.Config, Mode |-> e.Mode, Concurrency |-> e.Concurrency,
     Code |-> classifyError(e.Error)]

errorKey(e) ==
    [Config |-> e.Config, Mode |-> e.Mode, Concurrency |-> e.Concurrency,
     Request |-> e.Request, Code |-> classifyError(e.Error), Error |-> e.Error]

\* a scan that does not skip the successful entries
Failures_All(log) == log

\* the entries the error scans look at: if e.OK { continue }
Failures(log) == SelectSeq(log, LAMBDA e : ~e.OK)

\* first pass: min and max Ts of every key; keys[i] is the key of entries[i]
RECURSIVE ScanBounds(_, _, _)
ScanBounds(entries, keys, boundsMap) ==
    IF entries = <<>> THEN boundsMap
    ELSE LET e == Head(entries)
             k == Head(keys)
             b == IF k \in DOMAIN boundsMap
                  THEN [min |-> IF e.Ts < boundsMap[k].min THEN e.Ts
                                ELSE boundsMap[k].min,
                        max |-> IF e.Ts > boundsMap[k].max THEN e.Ts
                                ELSE boundsMap[k].max]
                  ELSE [min |-> e.Ts, max |-> e.Ts]
         IN  ScanBounds(Tail(entries), Tail(keys),
                        [x \in DOMAIN boundsMap \cup {k} |->
                            IF x = k THEN b ELSE boundsMap[x]])

\* a bucket count without the + 1
LogBuckets_NoPlusOne(b) == Max(1, (b.max - b.min) \div TicksPerSec)

\* secs := int(b.max.Sub(b.min).Seconds()) + 1, at least 1
LogBuckets(b) == Max(1, (b.max - b.min) \div TicksPerSec + 1)

\* sec := int(t.Sub(a.start).Seconds()), clamped into [0, n-1]
LogBucket(t, from, n) ==
    LET sec == (t - from) \div TicksPerSec
    IN  IF sec < 0 THEN 0 ELSE IF sec >= n THEN n - 1 ELSE sec

\* second pass of buildMethodSeriesFromLog
RECURSIVE ScanMethods(_, _)
ScanMethods(entries, aggs) ==
    IF entries = <<>> THEN aggs
    ELSE LET e == Head(entries)
             k == methodKey(e)
             a == aggs[k]
             sec == LogBucket(e.Ts, a.start, Len(a.ok))
             a2 == IF e.OK
                   THEN [a EXCEPT !.total = @ + 1, !.ok[sec + 1] = @ + 1,
                                  !.per[sec + 1] = Append(@, e.LatencyMs)]
                   ELSE [a EXCEPT !.total = @ + 1, !.err[sec + 1] = @ + 1]
         IN  ScanMethods(Tail(entries), [aggs EXCEPT ![k] = a2])

buildMethodSeriesFromLog(log) ==
    LET boundsMap == ScanBounds(log, [i \in 1..Len(log) |-> methodKey(log[i])], <<>>)
        aggs0 == [k \in DOMAIN boundsMap |->
                    [start |-> boundsMap[k].min,
                     per |-> [i \in 1..LogBuckets(boundsMap[k]) |-> <<>>],
                     ok |-> [i \in 1..LogBuckets(boundsMap[k]) |-> 0],
                     err |-> [i \in 1..LogBuckets(boundsMap[k]) |-> 0],
                     total |-> 0]]
        aggs == ScanMethods(log, aggs0)
    IN  [k \in DOMAIN aggs |->
            LET a == aggs[k]
                ps == percentileSeries(a.per)
            IN  [Sec |-> [i \in 1..Len(a.ok) |-> i],
                 P50 |-> ps.p50, P90 |-> ps.p90, P95 |-> ps.p95, P99 |-> ps.p99,
                 OK |-> a.ok, Err |-> a.err, Total |-> a.total, Start |-> a.start]]

\* second pass of buildErrorSeriesFromLog
RECURSIVE ScanErrors(_, _)
ScanErrors(entries, aggs) ==
    IF entries = <<>> THEN aggs
    ELSE LET e == Head(entries)
             k == errorSeriesKey(e)
             a == aggs[k]
             sec == LogBucket(e.Ts, a.start, Len(a.cnt))
         IN  ScanErrors(Tail(entries), [aggs EXCEPT ![k].cnt[sec + 1] = @ + 1])

buildErrorSeriesFromLog(log) ==
    LET failed == Failures(log)
        boundsMap == ScanBounds(failed,
                                [i \in 1..Len(failed) |-> errorSeriesKey(failed[i])],
                                <<>>)
        aggs0 == [k \in DOMAIN boundsMap |->
                    [start |-> boundsMap[k].min,
                     cnt |-> [i \in 1..LogBuckets(boundsMap[k]) |-> 0]]]
        aggs == ScanErrors(Failures(log), aggs0)
    IN  [k \in DOMAIN aggs |->
            [Start |-> aggs[k].start,
             Sec |-> [i \in 1..Len(aggs[k].cnt) |-> i],
             Cnt |-> aggs[k].cnt]]

\* buildErrorSummaryFromLog: counts[key]++ for every failed entry
RECURSIVE ScanSummary(_, _)
ScanSummary(entries, counts) ==
    IF entries = <<>> THEN counts
    ELSE LET k == errorKey(Head(entries))
         IN  ScanSummary(Tail(entries),
                         [x \in DOMAIN counts \cup {k} |->
                             IF x = k
                             THEN (IF k \in DOMAIN counts THEN counts[k] ELSE 0) + 1
                             ELSE counts[x]])

buildErrorSummaryFromLog(log) == ScanSummary(Failures(log), <<>>)

InitLogReport ==
    /\ InitFn
    /\ input \in { [fn |-> "report", log |-> l] : l \in Logs }

BuildMethodSeries ==
    /\ input.fn = "report"
    /\ Apply("buildMethodSeriesFromLog", buildMethodSeriesFromLog(input.log))

BuildErrorSeries ==
    /\ input.fn = "report"
    /\ Apply("buildErrorSeriesFromLog", buildErrorSeriesFromLog(input.log))

BuildErrorSummary ==
    /\ input.fn = "report"
    /\ Apply("buildErrorSummaryFromLog", buildErrorSummaryFromLog(input.log))

NextLogReport == BuildMethodSeries \/ BuildErrorSeries \/ BuildErrorSummary
SpecLogReport == InitLogReport /\ [][NextLogReport]_vars

\* the positions of the log whose entry has method key k
Group(log, k) == { j \in 1..Len(log) : methodKey(log[j]) = k }

\* the smallest and largest of a non-empty set of numbers
MinOf(S) == CHOOSE x \in S : \A y \in S : x <= y
MaxOf(S) == CHOOSE x \in S : \A y \in S : x >= y

\* the bucket of timestamp t in a group that starts at from and has n buckets:
\* floor of the seconds since from, at most the last bucket
BucketOf(t, from, n) ==
    IF (t - from) \div TicksPerSec > n - 1 THEN n - 1
    ELSE (t - from) \div TicksPerSec

\* the latencies of the entries at the positions J of the log, as a list
RECURSIVE Latencies(_, _)
Latencies(log, J) ==
    IF log = <<>> THEN <<>>
    ELSE (IF Len(log) \in J THEN <<log[Len(log)].LatencyMs>> ELSE <<>>)
            \o Latencies(SubSeq(log, 1, Len(log) - 1), J)

\* C19: the method series has one series per (configuration, mode,
\* concurrency, operation) of the log; the series of a group has
\* floor(max_ts - min_ts) + 1 buckets, bucket i counts in OK the successful and
\* in Err the failed entries of the group whose floor(ts - min_ts) is i, its
\* percentiles are those of the success latencies of the bucket, Total is the
\* number of entries of the group and equals the sum of the OK and Err counts.
C19_MethodSeries ==
    (fpc = "buildMethodSeriesFromLog") =>
        LET log == input.log
        IN  /\ DOMAIN output = { methodKey(log[j]) : j \in 1..Len(log) }
            /\ \A k \in DOMAIN output :
                  LET G == Group(log, k)
                      lo == MinOf({ log[j].Ts : j \in G })
                      hi == MaxOf({ log[j].Ts : j \in G })
                      n == (hi - lo) \div TicksPerSec + 1
                      In(i) == { j \in G : BucketOf(log[j].Ts, lo, n) = i - 1 }
                      s == output[k]
                  IN  /\ Len(s.Sec) = n /\ Len(s.OK) = n /\ Len(s.Err) = n
                      /\ Len(s.P50) = n /\ Len(s.P99) = n
                      /\ s.Start = lo
                      /\ \A i \in 1..n :
                            /\ s.OK[i] = Cardinality({ j \in In(i) : log[j].OK })
                            /\ s.Err[i] = Cardinality({ j \in In(i) : ~log[j].OK })
                            /\ LET ls == Latencies(log, { j \in In(i) : log[j].OK })
                               IN  IF ls = <<>>
                                   THEN s.P50[i] = 0 /\ s.P90[i] = 0
                                        /\ s.P95[i] = 0 /\ s.P99[i] = 0
                                   ELSE /\ AtRank(s.P50[i], ls, RankIndex(50, Len(ls)))
                                        /\ AtRank(s.P90[i], ls, RankIndex(90, Len(ls)))
                                        /\ AtRank(s.P95[i], ls, RankIndex(95, Len(ls)))
                                        /\ AtRank(s.P99[i], ls, RankIndex(99, Len(ls)))
                      /\ s.Total = Cardinality(G)
                      /\ SumSeq(s.OK) + SumSeq(s.Err) = s.Total

\* three entries of one operation written out of time order, two seconds
\* apart: two buckets, one success and one failure in the first, one success
\* in the second
C19_Witness ==
    /\ fpc = "buildMethodSeriesFromLog"
    /\ Len(input.log) = 3
    /\ input.log[1].Ts > input.log[2].Ts
    /\ \E k \in DOMAIN output :
          /\ output[k].Total = 3
          /\ output[k].OK = <<1, 1>>
          /\ output[k].Err = <<1, 0>>

\* C20: the counts of the error summary sum to the number of ok=false entries
\* of the log and each counts the failed entries of its key; the error series
\* has one series per (configuration, mode, concurrency, code) of the failed
\* entries, whose bucket counts sum to the number of failed entries of that
\* key; successful entries count nowhere.
C20_FailuresOnly ==
    /\ (fpc = "buildErrorSummaryFromLog") =>
          LET log == input.log
              F == { j \in 1..Len(log) : ~log[j].OK }
          IN  /\ DOMAIN output = { errorKey(log[j]) : j \in F }
              /\ \A k \in DOMAIN output :
                    output[k] = Cardinality({ j \in F : errorKey(log[j]) = k })
              /\ Cardinality(F) =
                    Cardinality({ <<k, c>> \in (DOMAIN output) \X (1..MaxLog + 1) :
                                    c <= output[k] })
    /\ (fpc = "buildErrorSeriesFromLog") =>
          LET log == input.log
              F == { j \in 1..Len(log) : ~log[j].OK }
          IN  /\ DOMAIN output = { errorSeriesKey(log[j]) : j \in F }
              /\ \A k \in DOMAIN output :
                    /\ SumSeq(output[k].Cnt)
                          = Cardinality({ j \in F : errorSeriesKey(log[j]) = k })
                    /\ Len(output[k].Sec) = Len(output[k].Cnt)

\* a log with a success and two failures of different codes: the error series
\* has two keys, each with one failure
C20_Witness ==
    /\ fpc = "buildErrorSeriesFromLog"
    /\ Len(input.log) = 3
    /\ \E j \in 1..3 : input.log[j].OK
    /\ Cardinality(DOMAIN output) = 2
    /\ \A k \in DOMAIN output : SumSeq(output[k].Cnt) = 1

\* ---------------------------------------------------------------- report: synthesis
MaxKeys == 3

\* Go compares strings byte by byte: the strings of the model, in that order
StringOrder ==
    <<"GetAccountStateRaw", "GetBlockRaw", "GetMasterchainInfo",
      "WaitMasterchainBlock", "accounts", "blocks", "broken_pipe", "canceled",
      "cfg", "cfg2", "conn_reset", "eof", "not_found", "other", "timeout",
      "unknown", "unknown_query">>

\* the place of a string in that order: a < b iff StrRank(a) < StrRank(b)
StrRank(str) == CHOOSE k \in 1..Len(StringOrder) : StringOrder[k] = str

\* a chain of "if x != y { return x < y }" over the fields of a sort key
RECURSIVE LexLess(_, _)
LexLess(a, b) ==
    IF a = <<>> THEN FALSE
    ELSE IF Head(a) # Head(b) THEN Head(a) < Head(b)
         ELSE LexLess(Tail(a), Tail(b))

\* sort.Slice on a slice of at most 12 elements is an insertion sort: each
\* element moves left while it is less than the element before it
RECURSIVE InsertLeft(_, _)
InsertLeft(sorted, x) ==
    IF sorted = <<>> \/ ~LexLess(x.key, sorted[Len(sorted)].key)
    THEN Append(sorted, x)
    ELSE Append(InsertLeft(SubSeq(sorted, 1, Len(sorted) - 1), x),
                sorted[Len(sorted)])

RECURSIVE SortSlice(_)
SortSlice(kvs) ==
    IF kvs = <<>> THEN <<>>
    ELSE InsertLeft(SortSlice(SubSeq(kvs, 1, Len(kvs) - 1)), kvs[Len(kvs)])

\* the orders in which "for k, v := range m" may visit the keys S of a map
RangeOrders(S) ==
    { o \in [1..Cardinality(S) -> S] :
        \A i \in 1..Cardinality(S) : \A j \in 1..Cardinality(S) :
            (i # j) => o[i] # o[j] }

downsampleMethodSeries(methods, maxPoints) ==
    IF maxPoints <= 0 \/ DOMAIN methods = {} THEN methods
    ELSE [k \in DOMAIN methods |->
            LET v == methods[k]
            IN  IF Len(v.Sec) = 0 \/ Len(v.Sec) <= maxPoints THEN v
                ELSE LET idxs == sampleIndices(Len(v.Sec), maxPoints)
                     IN  [v EXCEPT !.Sec = sampleInts(v.Sec, idxs),
                                   !.P50 = sampleFloats(v.P50, idxs),
                                   !.P90 = sampleFloats(v.P90, idxs),
                                   !.P95 = sampleFloats(v.P95, idxs),
                                   !.P99 = sampleFloats(v.P99, idxs),
                                   !.OK = sampleFloats(v.OK, idxs),
                                   !.Err = sampleFloats(v.Err, idxs)]]

downsampleErrorSeries(errs, maxPoints) ==
    IF maxPoints <= 0 \/ DOMAIN errs = {} THEN errs
    ELSE [k \in DOMAIN errs |->
            LET v == errs[k]
            IN  IF Len(v.Sec) = 0 \/ Len(v.Sec) <= maxPoints THEN v
                ELSE LET idxs == sampleIndices(Len(v.Sec), maxPoints)
                     IN  [v EXCEPT !.Sec = sampleInts(v.Sec, idxs),
                                   !.Cnt = sampleFloats(v.Cnt, idxs)]]

\* a comparison of method entries that leaves the method out
methodSortKey_NoMethod(e) ==
    <<StrRank(e.Mode), StrRank(e.Config), e.Concurrency>>

\* flattenMethodSeries: the less function compares Mode, Config, Concurrency
\* and Method, in that order
methodSortKey(e) ==
    <<StrRank(e.Mode), StrRank(e.Config), e.Concurrency, StrRank(e.Method)>>

\* flattenMethodSeries; order is the order in which the map is ranged over
flattenMethodSeries(methods, order) ==
    IF DOMAIN methods = {} THEN <<>>
    ELSE LET out == [i \in 1..Len(order) |->
                        LET k == order[i]
                            v == methods[k]
                        IN  [Config |-> k.Config, Mode |-> k.Mode,
                             Concurrency |-> k.Concurrency, Method |-> k.Method,
                             Sec |-> v.Sec, P50 |-> v.P50, P90 |-> v.P90,
                             P95 |-> v.P95, P99 |-> v.P99, OK |-> v.OK,
                             Err |-> v.Err, Total |-> v.Total,
                             StartMs |-> v.Start]]
             sorted == SortSlice([i \in 1..Len(out) |->
                                     [key |-> methodSortKey(out[i]), val |-> out[i]]])
         IN  [i \in 1..Len(sorted) |-> sorted[i].val]

\* flattenErrorSeries: the less function compares Mode, Config, Concurrency
\* and Code, in that order
errorSeriesSortKey(e) ==
    <<StrRank(e.Mode), StrRank(e.Config), e.Concurrency, StrRank(e.Code)>>

\* flattenErrorSeries; order is the order in which the map is ranged over
flattenErrorSeries(errs, order) ==
    IF DOMAIN errs = {} THEN <<>>
    ELSE LET out == [i \in 1..Len(order) |->
                        LET k == order[i]
                            v == errs[k]
                        IN  [Config |-> k.Config, Mode |-> k.Mode,
                             Concurrency |-> k.Concurrency, Code |-> k.Code,
                             StartMs |-> v.Start, Sec |-> v.Sec, Cnt |-> v.Cnt]]
             sorted == SortSlice([i \in 1..Len(out) |->
                                     [key |-> errorSeriesSortKey(out[i]),
                                      val |-> out[i]]])
         IN  [i \in 1..Len(sorted) |-> sorted[i].val]

\* buildErrorSummaryFromLog: the less function compares Count (descending),
\* Config, Mode, Concurrency and Request, in that order
errorSummarySortKey(e) ==
    <<0 - e.Count, StrRank(e.Config), StrRank(e.Mode), e.Concurrency,
      StrRank(e.Request)>>

\* buildErrorSummaryFromLog, from the counts to the sorted entries; order is
\* the order in which the map of counts is ranged over
errorSummaryEntries(counts, order) ==
    LET out == [i \in 1..Len(order) |->
                   LET k == order[i]
                   IN  [Config |-> k.Config, Mode |-> k.Mode,
                        Concurrency |-> k.Concurrency, Request |-> k.Request,
                        Code |-> k.Code, Error |-> k.Error, Count |-> counts[k]]]
        sorted == SortSlice([i \in 1..Len(out) |->
                                [key |-> errorSummarySortKey(out[i]), val |-> out[i]]])
    IN  [i \in 1..Len(sorted) |-> sorted[i].val]

\* the (configuration, mode, concurrency, request) of the entries of a log: per
\* key a success and a timeout at time 0 and an EOF failure at time 0 or two
\* seconds later
SynthKeys ==
    { [Config |-> "cfg", Mode |-> "blocks", Concurrency |-> 1,
       Request |-> "WaitMasterchainBlock"],
      [Config |-> "cfg", Mode |-> "blocks", Concurrency |-> 1,
       Request |-> "GetBlockRaw"],
      [Config |-> "cfg", Mode |-> "blocks", Concurrency |-> 2,
       Request |-> "GetBlockRaw"],
      [Config |-> "cfg2", Mode |-> "accounts", Concurrency |-> 1,
       Request |-> "GetAccountStateRaw"] }

SynthEntries ==
    { [Config |-> k.Config, Mode |-> k.Mode, Concurrency |-> k.Concurrency,
       Request |-> k.Request, OK |-> TRUE, Ts |-> 0, LatencyMs |-> 1,
       Error |-> <<>>] : k \in SynthKeys }
      \cup
    { [Config |-> k.Config, Mode |-> k.Mode, Concurrency |-> k.Concurrency,
       Request |-> k.Request, OK |-> FALSE,
       Ts |-> IF k.Request = "WaitMasterchainBlock" \/ k.Concurrency = 2
              THEN 0 ELSE 2 * TicksPerSec,
       LatencyMs |-> 0, Error |-> FragEOFUpper] : k \in SynthKeys }
      \cup
    { [Config |-> k.Config, Mode |-> k.Mode, Concurrency |-> k.Concurrency,
       Request |-> k.Request, OK |-> FALSE, Ts |-> 0, LatencyMs |-> 0,
       Error |-> PatDeadline] : k \in SynthKeys }

InitSynthesis ==
    /\ InitFn
    /\ input \in { [fn |-> "synthesis", log |-> l, maxPoints |-> m] :
                     l \in SeqsUpTo(SynthEntries, MaxKeys), m \in {0, 2} }

\* writeHTMLReport: two runs of the method series part over the same log
FlattenMethodSeries ==
    /\ fpc = "start"
    /\ input.fn = "synthesis"
    /\ LET methods == downsampleMethodSeries(buildMethodSeriesFromLog(input.log),
                                             input.maxPoints)
       IN  \E o1 \in RangeOrders(DOMAIN methods) :
           \E o2 \in RangeOrders(DOMAIN methods) :
              Apply("flattenMethodSeries",
                    [orders |-> <<o1, o2>>,
                     runs |-> <<flattenMethodSeries(methods, o1),
                                flattenMethodSeries(methods, o2)>>])

\* writeHTMLReport: two runs of the error series part over the same log
FlattenErrorSeries ==
    /\ fpc = "start"
    /\ input.fn = "synthesis"
    /\ LET errs == downsampleErrorSeries(buildErrorSeriesFromLog(input.log),
                                         input.maxPoints)
       IN  \E o1 \in RangeOrders(DOMAIN errs) :
           \E o2 \in RangeOrders(DOMAIN errs) :
              Apply("flattenErrorSeries",
                    [orders |-> <<o1, o2>>,
                     runs |-> <<flattenErrorSeries(errs, o1),
                                flattenErrorSeries(errs, o2)>>])

\* two runs of buildErrorSummaryFromLog over the same log
SortErrorSummary ==
    /\ fpc = "start"
    /\ input.fn = "synthesis"
    /\ LET counts == buildErrorSummaryFromLog(input.log)
       IN  \E o1 \in RangeOrders(DOMAIN counts) :
           \E o2 \in RangeOrders(DOMAIN counts) :
              Apply("errorSummaryEntries",
                    [orders |-> <<o1, o2>>,
                     runs |-> <<errorSummaryEntries(counts, o1),
                                errorSummaryEntries(counts, o2)>>])

NextSynthesis == FlattenMethodSeries \/ FlattenErrorSeries \/ SortErrorSummary
SpecSynthesis == InitSynthesis /\ [][NextSynthesis]_vars

\* the entries of a flattened list are in strictly increasing order of key
StrictlyByKey(es, last) ==
    \A i \in 1..(Len(es) - 1) :
        LexLess(<<StrRank(es[i].Mode), StrRank(es[i].Config), es[i].Concurrency,
                  StrRank(es[i][last])>>,
                <<StrRank(es[i + 1].Mode), StrRank(es[i + 1].Config),
                  es[i + 1].Concurrency, StrRank(es[i + 1][last])>>)

\* C21: two runs of the report over the same log give the same flattened
\* method series and the same flattened error series, whatever the order in
\* which each run ranges over its maps: one entry per key, in strictly
\* increasing order of (mode, config, concurrency, method or code), each with
\* the downsampled points of its key.
C21_Deterministic ==
    /\ (fpc = "flattenMethodSeries") =>
          LET m == downsampleMethodSeries(buildMethodSeriesFromLog(input.log),
                                          input.maxPoints)
          IN  /\ output.runs[1] = output.runs[2]
              /\ Len(output.runs[1]) = Cardinality(DOMAIN m)
              /\ StrictlyByKey(output.runs[1], "Method")
              /\ \A i \in 1..Len(output.runs[1]) :
                    LET e == output.runs[1][i]
                        k == [Config |-> e.Config, Mode |-> e.Mode,
                              Concurrency |-> e.Concurrency, Method |-> e.Method]
                    IN  /\ k \in DOMAIN m
                        /\ e.Sec = m[k].Sec /\ e.OK = m[k].OK /\ e.Err = m[k].Err
                        /\ e.P50 = m[k].P50 /\ e.P99 = m[k].P99
                        /\ e.Total = m[k].Total
    /\ (fpc = "flattenErrorSeries") =>
          LET m == downsampleErrorSeries(buildErrorSeriesFromLog(input.log),
                                         input.maxPoints)
          IN  /\ output.runs[1] = output.runs[2]
              /\ Len(output.runs[1]) = Cardinality(DOMAIN m)
              /\ StrictlyByKey(output.runs[1], "Code")
              /\ \A i \in 1..Len(output.runs[1]) :
                    LET e == output.runs[1][i]
                        k == [Config |-> e.Config, Mode |-> e.Mode,
                              Concurrency |-> e.Concurrency, Code |-> e.Code]
                    IN  /\ k \in DOMAIN m
                        /\ e.Sec = m[k].Sec /\ e.Cnt = m[k].Cnt

\* two runs ranged over a map of two method series in different orders, one of
\* the series was downsampled from three points to two, and the accounts entry
\* of configuration cfg2 comes before the blocks entry of configuration cfg
C21_Witness ==
    /\ fpc = "flattenMethodSeries"
    /\ output.orders[1] # output.orders[2]
    /\ Len(output.runs[1]) = 2
    /\ input.maxPoints = 2
    /\ output.runs[1][1].Mode = "accounts"
    /\ output.runs[1][2].Config = "cfg"
    /\ \E i \in 1..2 : output.runs[2][i].Sec = <<1, 3>>

\* C30 (as claimed): two runs of buildErrorSummaryFromLog over the same log
\* return the same entries in the same order.
C30_SummaryDeterministic ==
    (fpc = "errorSummaryEntries") => output.runs[1] = output.runs[2]

\* ---------------------------------------------------------------- runner: further properties
\* C22 (as claimed): a run with zero work items invokes no operation, claims no
\* index, and does not return an ordinary result with Success = 0 and
\* Errors = 0, in a fixed dataset run as in a timed run.
C22_ZeroItemsFail ==
    (total = 0 /\ mpc # "start") =>
        /\ SumCalls(MaxItems) = 0
        /\ opCalls = 0
        /\ idx = 0 /\ claimed = <<>>
        /\ RunReturned => ~(successes = 0 /\ errors = 0)

\* the step in which worker w claims an index
Claims(w) == pc[w] = "claim" /\ pc'[w] # "claim"

C23_ClaimStep ==
    \A w \in Workers :
        Claims(w) =>
            /\ idx' = idx + 1
            /\ Len(claimed') = Len(claimed) + 1
            /\ widx'[w] = idx % total
            /\ claimed'[Len(claimed')] = widx'[w]
            /\ \A v \in Workers : (v # w) => (pc'[v] = pc[v] /\ widx'[v] = widx[v])

C23_Claimed ==
    Timed =>
        /\ Len(claimed) = idx
        /\ \A k \in 1..Len(claimed) :
              /\ claimed[k] = (k - 1) % total
              /\ claimed[k] \in 0..(total - 1)
        /\ \A k \in 1..(Len(claimed) - total + 1) :
              /\ { claimed[j] : j \in k..(k + total - 1) } = Items
              /\ \A i \in k..(k + total - 1) : \A j \in k..(k + total - 1) :
                    (i # j) => claimed[i] # claimed[j]
        /\ SumCalls(MaxItems) = idx
        /\ \A i \in Items : calls[i] = CountOf(claimed, i)

\* C23: in a timed run every claim takes one value of the shared counter in
\* one step (the counter grows by one, no other worker moves), the k-th claim
\* of the run gets item k mod itemCount, every claimed index is in
\* [0, itemCount-1], and any itemCount consecutive claims cover every item
\* exactly once.
C23_CyclicClaims == [][Timed => C23_ClaimStep]_vars /\ []C23_Claimed

\* two workers have claimed three indices of a two-item pool between them: the
\* pool was cycled
C23_Witness ==
    /\ Timed /\ total = 2 /\ conc = 2
    /\ claimed = <<0, 1, 0>>
    /\ \E w \in Workers : \E v \in Workers :
          w # v /\ InFn(w) /\ InFn(v) /\ widx[w] # widx[v]

\* ---------------------------------------------------------------- block picker: the critical section
\* the workers that hold p.mu (between p.mu.Lock() and the deferred Unlock)
Holders == { w \in Workers : pc[w] = "fetch" }

C24_Mutex ==
    /\ Cardinality(Holders) <= 1
    /\ \A w \in Workers : (pc[w] = "fetch") = (picker.mu = w)

C24_TogetherStep ==
    /\ (picker'.latest # picker.latest \/ picker'.lastRefresh # picker.lastRefresh) =>
          /\ picker.mu \in Workers
          /\ pc[picker.mu] = "fetch" /\ pc'[picker.mu] = "wait"
          /\ picker'.mu = NoWorker
          /\ picker'.latest \in 1..MaxBound
          /\ picker'.lastRefresh = pickNow
          /\ wseq'[picker.mu] <= picker'.latest
    /\ \A w \in Workers :
          (picker.on /\ pc[w] = "pick" /\ pc'[w] # "pick") => picker.mu = NoWorker

\* worker w waited for the lock while the first fetch of the run, made on the
\* empty cache, was in progress, and that fetch returned a bound
WaitedForFirstFetch(w) ==
    /\ picker.mode = "last"
    /\ pc[w] = "pick"
    /\ fetchCount = 1
    /\ picker.latest # 0
    /\ t0[w] < lastOkFetch

\* the step in which worker w's pick reuses the cached bound
ReusesBound(w) ==
    /\ ~FetchInvoked
    /\ picker' = picker
    /\ pc'[w] = "wait"
    /\ wseq'[w] <= picker.latest
    /\ wseq'[w] >= picker.latest - picker.window + 1

\* C24 (as claimed): one worker at a time is inside the critical section, the
\* bound and the refresh time are read and written only inside it and together,
\* and a worker that waited for the lock during the first fetch makes no fetch
\* of its own and uses the bound that fetch returned.
C24_OneFetchStep ==
    \A w \in Workers :
        (WaitedForFirstFetch(w) /\ pc'[w] # "pick") => ReusesBound(w)

C24_CriticalSection ==
    /\ []C24_Mutex
    /\ [][C24_TogetherStep]_vars
    /\ [][C24_OneFetchStep]_vars

\* C24 (amended): as claimed, but the worker that waited reuses the bound only
\* if it gets the lock less than R after the fetching pick read the clock (or
\* the refresh is off); R or more after it, it fetches again.
C24_OneFetchInTimeStep ==
    \A w \in Workers :
        (WaitedForFirstFetch(w) /\ pc'[w] # "pick") =>
            IF picker.refresh > 0 /\ now - picker.lastRefresh >= picker.refresh
            THEN FetchInvoked /\ pc'[w] = "fetch" /\ picker'.latest = picker.latest
            ELSE ReusesBound(w)

C24_CriticalSectionInTime ==
    /\ []C24_Mutex
    /\ [][C24_TogetherStep]_vars
    /\ [][C24_OneFetchInTimeStep]_vars

\* a worker that waited for the lock during the first fetch of the run is
\* inside the operation with a block of the fetched bound's window, and no
\* second fetch was made
C24_Witness ==
    \E w \in Workers : \E v \in Workers :
        /\ w # v
        /\ picker.mode = "last" /\ picker.latest # 0
        /\ fetchCount = 1
        /\ t0[w] < lastOkFetch
        /\ pc[w] = "wait" /\ pc[v] = "wait"
        /\ wseq[w] <= picker.latest /\ wseq[v] <= picker.latest

\* ---------------------------------------------------------------- runTimedJobs: the locks of the recording
\* d and sec are computed; the per-second counts are added atomically and the
\* latency is appended under perSecMu[sec] (locked and unlocked in this step: it
\* is held across no other synchronisation)
RecordSeries(w) ==
    /\ pc[w] = "record"
    /\ duration > 0
    /\ LET d == now - t0[w]
           sec == SecOf(now)
       IN  /\ IF InSeries(sec, Buckets(duration))
              THEN IF werr[w]
                   THEN /\ errCounts' = [errCounts EXCEPT ![sec + 1] = @ + 1]
                        /\ UNCHANGED <<okCounts, perSec>>
                   ELSE /\ okCounts' = [okCounts EXCEPT ![sec + 1] = @ + 1]
                        /\ perSec' = [perSec EXCEPT ![sec + 1] = Append(@, d)]
                        /\ UNCHANGED errCounts
              ELSE UNCHANGED <<okCounts, errCounts, perSec>>
           /\ wd' = [wd EXCEPT ![w] = d]
    /\ pc' = [pc EXCEPT ![w] = "mu"]
    /\ UNCHANGED <<cfgVars, fnVars, acctVars, mainVars, pickVars, conc, jobs, jobsClosed,
                   di, durations, successes, errors, idx, start, mu, widx, t0, werr,
                   wseq, logVars, histVars, mpc, now>>

\* mu.Lock()
LockMu(w) ==
    /\ pc[w] = "mu"
    /\ mu = NoWorker
    /\ mu' = w
    /\ pc' = [pc EXCEPT ![w] = "locked"]
    /\ UNCHANGED <<cfgVars, fnVars, acctVars, mainVars, pickVars, runVars, wd, widx, t0,
                   werr, wseq, logVars, histVars, mpc, now>>

\* durations = append(durations, ...); atomic.AddInt64(...); mu.Unlock()
RecordTotals(w) ==
    /\ pc[w] = "locked"
    /\ durations' = Append(durations, Outcome(werr[w], wd[w]))
    /\ IF werr[w]
       THEN errors' = errors + 1 /\ UNCHANGED successes
       ELSE successes' = successes + 1 /\ UNCHANGED errors
    /\ mu' = NoWorker
    /\ wd' = [wd EXCEPT ![w] = 0]
    /\ pc' = [pc EXCEPT ![w] = AfterRecord(werr[w])]
    /\ EndIteration(w)
    /\ UNCHANGED <<cfgVars, fnVars, acctVars, mainVars, pickVars, conc, jobs, jobsClosed,
                   di, idx, start, okCounts, errCounts, perSec, logVars, histVars,
                   mpc, now>>

\* the timed run of at most one second, with the recording of an outcome taken
\* lock by lock
InitLocks ==
    /\ InitRunner
    /\ duration > 0
    /\ duration <= TicksPerSec

NextLocks ==
    \/ StartTimed
    \/ WaitWorkers
    \/ LoggerClose
    \/ Tick
    \/ \E w \in Workers :
          \/ WorkerCheck(w) \/ WorkerClaim(w)
          \/ WaitReturn(w) \/ GetReturn(w)
          \/ RecordSeries(w) \/ LockMu(w) \/ RecordTotals(w)

SpecLocks == InitLocks /\ [][NextLocks]_vars

\* C25 (as claimed): in the hot path a worker waits for another worker only at
\* the shared index source, at the lock of the bucket it records into and at
\* the selector's lock: no worker is ever waiting for a lock that another
\* worker holds and that every worker takes on every iteration.
C25_NoGlobalLock ==
    \A w \in Workers : ~(pc[w] = "mu" /\ mu # NoWorker /\ mu # w)


\* ---------------------------------------------------------------- report: downsampling twice
\* C26: downsampling an already downsampled series with the same budget M > 0
\* changes its length by at most one point, and a series of at most M points
\* (or any series when M = 0) is returned unchanged.
C26_IdempotentWithinOne ==
    /\ (fpc = "writeHTMLReport") =>
          LET M == input.maxPoints
              twice == writeHTMLReport(output, M)
          IN  /\ M > 0 =>
                    /\ Len(output.Sec) - Len(twice.Sec) <= 1
                    /\ Len(twice.Sec) - Len(output.Sec) <= 1
              /\ (Len(input.series.Sec) <= M \/ M = 0) => output = input.series
    /\ (fpc = "sampleIndices" /\ input.maxPoints > 0) =>
          LET twice == sampleIndices(Len(output), input.maxPoints)
          IN  /\ Len(output) - Len(twice) <= 1
              /\ Len(twice) - Len(output) <= 1


\* ---------------------------------------------------------------- metrics: the fixture
\* C27 (as claimed): for the 10 successful samples 1, 2, ..., 10 ms
\* computeMetrics reports p50 = 5 ms, the sample at index 4, and p99 = 9 ms,
\* the sample at index 8.
C27_FixtureAsClaimed ==
    (fpc = "applyMetrics" /\ input.durations \in {Fixture, FixtureReversed}
       /\ input.Success # 0) =>
        /\ output.P50Ms = SortAsc(input.durations)[4 + 1] /\ output.P50Ms = 5
        /\ output.P99Ms = SortAsc(input.durations)[8 + 1] /\ output.P99Ms = 9

\* C27 (amended): for the 10 successful samples 1, 2, ..., 10 ms, in whatever
\* order they arrived, computeMetrics reports p50 = 5 ms, the sample at index
\* ceil(0.5 * 10) - 1 = 4, and p99 = 10 ms, the sample at index
\* ceil(0.99 * 10) - 1 = 9; p90 is 9 ms (index 8), p95 and max are 10 ms.
C27_Fixture ==
    (fpc = "applyMetrics" /\ input.durations \in {Fixture, FixtureReversed}
       /\ input.Success # 0) =>
        /\ output.P50Ms = SortAsc(input.durations)[4 + 1] /\ output.P50Ms = 5
        /\ output.P99Ms = SortAsc(input.durations)[9 + 1] /\ output.P99Ms = 10
        /\ output.P90Ms = 9
        /\ output.P95Ms = 10
        /\ output.MaxMs = 10

\* the fixture, arrived in descending order, got p50 = 5 and p99 = 10
C27_Witness ==
    /\ fpc = "applyMetrics"
    /\ input.durations = FixtureReversed
    /\ input.Success = 3
    /\ output.P50Ms = 5
    /\ output.P99Ms = 10


\* ---------------------------------------------------------------- runBlockTest: the two steps of work
\* the request log, oldest entry first
WholeLog == file \o wbuf \o ch

\* the entries worker w has written, oldest first
EntriesOf(w) == SelectSeq(WholeLog, LAMBDA e : e.w = w)

\* the number of entries of request req with outcome ok
EntryCount(req, ok) ==
    Len(SelectSeq(WholeLog, LAMBDA e : e.req = req /\ e.ok = ok))

\* the workers whose execution has returned and is about to be counted
Returning(err) == { w \in Workers : pc[w] = "record" /\ werr[w] = err }

\* the entries of each worker, execution after execution: a failed
\* WaitMasterchainBlock entry alone, or a successful one followed by the
\* GetBlockRaw entry
C29_Log ==
    \A w \in Workers :
        LET L == EntriesOf(w)
        IN  /\ Len(L) = nlog[w]
            /\ \A j \in 1..Len(L) :
                  /\ L[j].n = j
                  /\ L[j].req \in {"WaitMasterchainBlock", "GetBlockRaw"}
                  /\ L[j].req = "GetBlockRaw" =>
                        /\ j > 1
                        /\ L[j - 1].req = "WaitMasterchainBlock"
                        /\ L[j - 1].ok
                  /\ (L[j].req = "WaitMasterchainBlock" /\ j < Len(L)) =>
                        L[j + 1].req = (IF L[j].ok THEN "GetBlockRaw"
                                        ELSE "WaitMasterchainBlock")
                  /\ (L[j].req = "WaitMasterchainBlock" /\ j = Len(L)) =>
                        (L[j].ok <=> pc[w] \in {"get", "log2"})

\* the counts: one WaitMasterchainBlock entry per execution, a success per
\* successful GetBlockRaw entry, an error per failed entry
C29_Counts ==
    (total > 0) =>
        /\ EntryCount("WaitMasterchainBlock", TRUE) + EntryCount("WaitMasterchainBlock", FALSE)
              = successes + errors
                  + Cardinality({ w \in Workers : pc[w] \in {"get", "log2", "record"} })
        /\ EntryCount("GetBlockRaw", TRUE)
              = successes + Cardinality(Returning(FALSE))
        /\ EntryCount("WaitMasterchainBlock", FALSE) + EntryCount("GetBlockRaw", FALSE)
              = errors + Cardinality(Returning(TRUE))

\* GetBlockRaw is called only by an execution whose WaitMasterchainBlock call
\* has returned without error, and an execution returns only after a failed
\* first call or after the second call
C29_Step ==
    \A w \in Workers :
        /\ (pc[w] # "get" /\ pc'[w] = "get") =>
              /\ pc[w] = "log1"
              /\ ~werr[w]
        /\ (pc[w] # "record" /\ pc'[w] = "record") =>
              \/ pc[w] = "log1" /\ werr[w] /\ werr'[w]
              \/ pc[w] = "log2" /\ werr'[w] = werr[w]

\* C29 (as claimed): in the block scenario every execution of the work function calls
\* WaitMasterchainBlock first and GetBlockRaw only if that call succeeded; it
\* writes one log entry when the first call fails and two (WaitMasterchainBlock,
\* then GetBlockRaw) otherwise, and is counted as one success if and only if
\* both calls succeeded, else as one error.
C29_TwoSteps == []C29_Log /\ []C29_Counts /\ [][C29_Step]_vars



\* the block scenario with the request log and the block picker together: a
\* dataset run, or a timed run of one worker, one item and one tick
InitBlocks ==
    /\ RunnerConfig
    /\ total > 0
    /\ reqConc > 0
    /\ duration > 0 => (duration = 1 /\ total = 1 /\ reqConc = 1)
    /\ logOn = TRUE
    /\ picker \in {NoPicker} \cup { p \in LastPickers : p.refresh < 0 }
    /\ InitCommon

NextBlocks == NextRunner \/ NextLog \/ NextPick
SpecBlocks == InitBlocks /\ [][NextBlocks]_vars

\* the counts with the block picker: an execution whose pick failed is an error
\* without an entry
C29_CountsAfterPick ==
    (total > 0) =>
        /\ EntryCount("GetBlockRaw", TRUE)
              = successes + Cardinality(Returning(FALSE))
        /\ EntryCount("WaitMasterchainBlock", FALSE) + EntryCount("GetBlockRaw", FALSE)
              <= errors + Cardinality(Returning(TRUE))
        /\ picker.mode # "last" => C29_Counts

\* the steps with the block picker: an execution also returns, as a failure and
\* with no call made and no entry written, when its pick fails
C29_StepAfterPick ==
    \A w \in Workers :
        /\ (pc[w] # "wait" /\ pc'[w] = "wait") =>
              pc[w] \in {"recv", "claim", "pick", "fetch"}
        /\ (pc[w] # "get" /\ pc'[w] = "get") =>
              /\ pc[w] = "log1"
              /\ ~werr[w]
        /\ (pc[w] # "record" /\ pc'[w] = "record") =>
              \/ pc[w] = "log1" /\ werr[w] /\ werr'[w]
              \/ pc[w] = "log2" /\ werr'[w] = werr[w]
              \/ /\ pc[w] = "fetch" /\ picker.mode = "last"
                 /\ werr'[w] /\ wseq'[w] = 0
                 /\ nlog'[w] = nlog[w]
        /\ (pc[w] = "record" /\ pc'[w] # "record") =>
              /\ successes' = successes + (IF werr[w] THEN 0 ELSE 1)
              /\ errors' = errors + (IF werr[w] THEN 1 ELSE 0)

\* C29 (amended): in the block scenario every execution of the work function
\* that has a block to ask for (blocks-random off, or the pick returned one)
\* calls WaitMasterchainBlock first and GetBlockRaw only if that call
\* succeeded; it writes one log entry when the first call fails and two
\* (WaitMasterchainBlock, then GetBlockRaw) otherwise. With blocks-random in
\* last mode an execution whose bound fetch fails returns before any call and
\* writes no entry. Every execution is counted as one success if and only if
\* both calls succeeded, else as one error.
C29_TwoStepsAfterPick ==
    []C29_Log /\ []C29_CountsAfterPick /\ [][C29_StepAfterPick]_vars

\* a dataset run of two items with the block picker in last mode: the pick of
\* worker 1 has failed and it returns with no entry written, worker 2 has
\* written its two entries and returns a success
C29_Witness ==
    /\ picker.mode = "last"
    /\ total = 2 /\ ~(duration > 0)
    /\ pc[1] = "record" /\ werr[1] /\ wseq[1] = 0 /\ nlog[1] = 0
    /\ pc[2] = "record" /\ ~werr[2] /\ nlog[2] = 2
    /\ EntryCount("GetBlockRaw", TRUE) = 1


\* ---------------------------------------------------------------- main: the scenarios, Close, the report
MaxRounds == 2

\* main: the next call of runBlockTest or runAccountTest of the loops over the
\* configurations and the concurrency levels; the locals of the previous run
\* are gone, and time is counted from the start of the scenario
NextScenario ==
    /\ mpc \in {"loop", "returned"}
    /\ round < MaxRounds
    /\ round' = round + 1
    /\ \E sc \in {"blocks", "accounts"}, n \in 1..MaxItems, c \in 1..MaxConc :
          /\ duration > 0 => (n = 1 /\ c = 1)
          /\ scenario' = sc
          /\ total' = n
          /\ reqConc' = c
          /\ mpc' = ScenarioEntry(sc)
    /\ masterErr' = FALSE
    /\ mu' = NoWorker
    /\ wd' = [w \in Workers |-> 0]
    /\ conc' = 0
    /\ jobs' = <<>>
    /\ jobsClosed' = FALSE
    /\ di' = 0
    /\ durations' = <<>>
    /\ successes' = 0
    /\ errors' = 0
    /\ idx' = 0
    /\ start' = 0
    /\ okCounts' = <<>>
    /\ errCounts' = <<>>
    /\ perSec' = <<>>
    /\ pc' = [w \in Workers |-> "idle"]
    /\ widx' = [w \in Workers |-> 0]
    /\ t0' = [w \in Workers |-> 0]
    /\ werr' = [w \in Workers |-> FALSE]
    /\ wseq' = [w \in Workers |-> 0]
    /\ calls' = [i \in 0..(MaxItems - 1) |-> 0]
    /\ opCalls' = 0
    /\ claimed' = <<>>
    /\ now' = 0
    /\ UNCHANGED <<duration, logOn, fnVars, pickVars, logVars>>

\* main: exitf("invalid pool-strategy") or exitf("no results collected"):
\* os.Exit with no scenario run
ExitNoResults ==
    /\ mpc = "loop"
    /\ round = 0
    /\ mpc' = "exited"
    /\ UNCHANGED <<cfgVars, fnVars, acctVars, recVars, mainVars, pickVars, runVars, workerVars, logVars, histVars, now>>

\* a main that reads the log as soon as the scenarios have returned
MayReadLog_BeforeClose == mpc \in {"returned", "closewait", "closed"}

\* main: the log is read after logger.Close()
MayReadLog == mpc = "closed"

\* main: buildMethodSeriesFromLog(reqLogPath) and the others read the file
ReadLog ==
    /\ MayReadLog
    /\ logOn
    /\ output' = file
    /\ mpc' = "report"
    /\ UNCHANGED <<cfgVars, input, fpc, acctVars, recVars, mainVars, pickVars, runVars, workerVars, logVars, histVars, now>>

\* main from the creation of the logger on: dataset runs of both scenarios, or
\* timed runs of one tick
InitDriver ==
    /\ scenario = "blocks"
    /\ total = 0
    /\ reqConc = 0
    /\ duration \in 0..1
    /\ logOn = TRUE
    /\ picker = NoPicker
    /\ InitIdle
    /\ round = 0
    /\ mpc = "loop"
    /\ input = <<>>
    /\ output = <<>>
    /\ fpc = "none"

\* the clock is followed in the timed runs only: in a dataset run it decides
\* nothing but the latencies recorded
TimedTick ==
    /\ duration > 0
    /\ Tick

NextDriver ==
    \/ NextScenario
    \/ ExitNoResults
    \/ ReadLog
    \/ AccountMaster
    \/ NextFixed
    \/ NextTimed
    \/ WaitWorkers
    \/ LoggerClose
    \/ TimedTick
    \/ ConsumerRecv
    \/ ConsumerFinish
    \/ LoggerClosed
    \/ \E w \in Workers : AcctReturn(w) \/ LogAcct(w)
    \/ \E w \in Workers : WaitReturn(w) \/ GetReturn(w) \/ LogWait(w) \/ LogGet(w)

SpecDriver == InitDriver /\ [][NextDriver]_vars


\* every worker goroutine of the current scenario has been joined
AllJoined == \A w \in Workers : pc[w] \in {"idle", "done"}

\* close(l.ch) happens at most once, after the scenarios have returned with
\* their workers joined; no entry is sent in or after that step; the log only
\* grows; the log is read only after Close has returned
C28_Step ==
    /\ chClosed' # chClosed =>
          /\ ~chClosed
          /\ mpc = "returned" /\ round >= 1
          /\ AllJoined
          /\ nlog' = nlog
    /\ chClosed => (chClosed' /\ nlog' = nlog /\ Len(WholeLog') = Len(WholeLog))
    /\ \/ WholeLog' = WholeLog
       \/ /\ ch' # <<>>
          /\ WholeLog' = Append(WholeLog, ch'[Len(ch')])
    /\ \A w \in Workers : nlog'[w] # nlog[w] => Len(WholeLog') = Len(WholeLog) + 1
    /\ (mpc # "report" /\ mpc' = "report") => (mpc = "closed" /\ lpc = "done")

\* while the channel is closed no worker is running; once Close has returned
\* every entry is in the file and the file is closed; what the report reads is
\* the whole log; a process that exits without Close has recorded nothing
C28_State ==
    /\ chClosed => (AllJoined /\ mpc \in {"closewait", "closed", "report"})
    /\ ~AllJoined => mpc \in {"dispatch", "wait"}
    /\ mpc \in {"closed", "report"} =>
          /\ chClosed /\ lpc = "done" /\ fileClosed
          /\ ch = <<>> /\ wbuf = <<>>
          /\ Len(file) >= SumSeq(nlog)
    /\ mpc = "report" => output = WholeLog
    /\ mpc = "exited" => (WholeLog = <<>> /\ SumSeq(nlog) = 0 /\ round = 0)

\* C28: on every path of main on which entries were recorded the logger is
\* closed at most once, after every scenario's runJobs or runTimedJobs has
\* returned with all its workers joined; no logRequest runs during or after
\* Close; the log is read for the report only after Close has returned, with
\* every recorded entry in the file.
C28_CloseAfterScenarios == []C28_State /\ [][C28_Step]_vars

\* two scenarios have run, a block run and an account run, Close has returned
\* and the report has read the entries of both
C28_Witness ==
    /\ mpc = "report"
    /\ round = 2
    /\ scenario = "accounts"
    /\ \E j \in 1..Len(output) : output[j].req = "WaitMasterchainBlock"
    /\ \E j \in 1..Len(output) : output[j].req = "GetAccountStateRaw"
    /\ \E j \in 1..Len(output) : output[j].req = "GetMasterchainInfo"
    /\ Len(output) >= 4

====
